---- MODULE Spec2Model ----
(***************************************************************************)
(* Debate-to-Detect: the debate orchestration engine (engine.py), the      *)
(* agent / request client (agent.py) and the evidence broker               *)
(* (evidence_system.py), modelled as state machines.                       *)
(*                                                                         *)
(*   Spec       one run of Debate.run, one action per external call        *)
(*   SpecAgent  Agent.ask / Agent.query called on arbitrary inputs         *)
(***************************************************************************)
EXTENDS Integers, Sequences, FiniteSets, TLC

VARIABLES
    cfg,            \* the configuration surface read by the run (config.py)
    pc,             \* position of the control thread in Debate.run
    agents,         \* role name -> system_prompt of its Agent
    domain,         \* Debate.domain
    profiles,       \* Debate.profiles, in insertion order
    shared,         \* Debate.shared (Shared Context)
    transcript,     \* Debate.transcript
    evidence_data,  \* Debate.evidence_data
    affirmative_evidence,   \* Debate.affirmative_evidence
    negative_evidence,      \* Debate.negative_evidence
    gather,         \* locals of EvidenceSystem.gather_evidence while it runs
    phaseIdx,       \* index into PHASES of the phase being executed
    turn,           \* enumerate(seq, 1) position inside the phase
    phases_entered, \* phases whose header line 197 was executed, in order
    judge_prompt_template,  \* local of _calculate_scores
    jIdx,           \* index into SCORING_JUDGE_ROLES
    scores,         \* local `scores` of _calculate_scores / _judge
    verdict,        \* local `verdict` of _judge
    saved,          \* what _save wrote
    reqlog,         \* who called Agent.ask, in call order
    call,           \* the most recent Agent.ask of the run and how it ended
    probe           \* SpecAgent: the most recent direct call of an Agent method

vars == << cfg, pc, agents, domain, profiles, shared, transcript, evidence_data,
           affirmative_evidence, negative_evidence, gather, phaseIdx, turn,
           phases_entered, judge_prompt_template, jIdx, scores, verdict, saved,
           reqlog, call, probe >>

(***************************************************************************)
(* Bounds of the model                                                     *)
(***************************************************************************)
MaxKeywords == 2        \* keywords returned by the extractor in a run
MaxFreeRounds == 1      \* FREE_ROUNDS ranges over 0..MaxFreeRounds
MaxHist == 4            \* SpecAgent: length of the history passed to ask
MaxThreshold == 2       \* SpecAgent: MEMORY_SUMMARIZE_THRESHOLD in 0..MaxThreshold
MaxKeep == 2            \* SpecAgent: MEMORY_KEEP_RECENT in 0..MaxKeep
MaxMessages == 2        \* SpecFunctions: messages of a request whose budget is computed
MaxRoster == 3          \* SpecFunctions: length of the roster passed to _get_speakers_sequence
MaxRounds == 3          \* SpecFunctions: FREE_ROUNDS ranges over 0..MaxRounds
MaxRecords == 4         \* SpecFunctions: calls of _record in a row
MaxTotal == 4           \* SpecFunctions: the totals of a side range over -1..MaxTotal
MaxItems == 6           \* SpecFunctions: array elements or lines of an extractor reply

(***************************************************************************)
(* config.py                                                               *)
(***************************************************************************)
SUPPORT_MODELS ==
    {"gpt-4o-mini", "gpt-4o", "gpt-4", "gpt-4-0314", "gpt-3.5-turbo", "gpt-3.5-turbo-0301"}

MAX_COMPLETION_TOKENS == 1024
MEMORY_SUMMARIZE_THRESHOLD == 20
MEMORY_KEEP_RECENT == 10
FREE_ROUNDS == 1
ENABLE_EVIDENCE == TRUE
EVIDENCE_PHASE == "Free"
AUTO_SAVE == TRUE

DEBATE_ROLES == <<"Opening", "Rebuttal", "Free", "Closing">>

SCORING_JUDGE_ROLES == <<"Accuracy", "SourceReliability", "Reasoning", "Clarity", "Ethics">>

SUMMARY_JUDGE_CONFIG == "Summary"

\* A role name f"{side}_{duty}" is kept as the pair it is built from.
Role(side, duty) == [side |-> side, duty |-> duty]

PHASE_TEMPLATES == {"Opening", "Rebuttal", "Free", "Free_Evidence", "Closing"}

\* The named slots each template contains; str.format fills only these.
TemplateSlots(tpl) ==
    CASE tpl = "Opening"       -> {"news"}
      [] tpl = "Rebuttal"      -> {}
      [] tpl = "Free"          -> {"turn", "opp"}
      [] tpl = "Free_Evidence" -> {"turn", "opp", "evidence"}
      [] tpl = "Closing"       -> {}
      [] OTHER                 -> {}

PHASES == <<
    [phase |-> "Opening",  speakers |-> <<Role("Affirmative", "Opening"),  Role("Negative", "Opening")>>,  tpl |-> "Opening"],
    [phase |-> "Rebuttal", speakers |-> <<Role("Affirmative", "Rebuttal"), Role("Negative", "Rebuttal")>>, tpl |-> "Rebuttal"],
    [phase |-> "Free",     speakers |-> <<Role("Affirmative", "Free"),     Role("Negative", "Free")>>,     tpl |-> "Free"],
    [phase |-> "Closing",  speakers |-> <<Role("Affirmative", "Closing"),  Role("Negative", "Closing")>>,  tpl |-> "Closing"] >>

PhaseNames == {PHASES[i].phase : i \in 1..Len(PHASES)}

(***************************************************************************)
(* Sequences and Python slices                                             *)
(***************************************************************************)
Min(a, b) == IF a < b THEN a ELSE b
Max(a, b) == IF a > b THEN a ELSE b

Range(s) == {s[i] : i \in 1..Len(s)}

IsPrefix(s, t) == Len(s) <= Len(t) /\ \A i \in 1..Len(s) : s[i] = t[i]

\* lst[-k:] : the last k entries; -0 is 0, so lst[-0:] is the whole list
PySliceLast(lst, k) ==
    IF k = 0 \/ k >= Len(lst) THEN lst ELSE SubSeq(lst, Len(lst) - k + 1, Len(lst))

\* lst[:-k] : all but the last k entries; -0 is 0, so lst[:-0] is empty
PySliceButLast(lst, k) ==
    IF k = 0 \/ k >= Len(lst) THEN <<>> ELSE SubSeq(lst, 1, Len(lst) - k)

\* lst[:k]
PySliceFirst(lst, k) == SubSeq(lst, 1, Min(k, Len(lst)))

(***************************************************************************)
(* The completion service, as one Agent sees it during one call of query:  *)
(* its first `fails` responses are the transient error `kind`, the next    *)
(* one is `final`.                                                         *)
(***************************************************************************)
TransientErrors == {"RateLimitError", "APIError", "ServiceUnavailableError", "APIConnectionError"}

\* ok: a completion of the expected shape.  missing_key / empty_choices: a
\* response on which resp["choices"][0]["message"]["content"] raises KeyError
\* / IndexError.  wrong_type: one on which it raises TypeError (a null where a
\* list or object is expected).  InvalidRequestError: an openai error that is
\* not in the retry list.
FinalResponses == {"ok", "missing_key", "empty_choices", "wrong_type", "InvalidRequestError"}

MalformedResponses == {"missing_key", "empty_choices", "wrong_type"}

\* `text` is the completion the service generates when it answers "ok"
Behaviour(fails, kind, final, text) ==
    [fails |-> fails, kind |-> kind, final |-> final, text |-> text]

\* what the service answers to the t-th dispatch of one query call
Response(beh, t) ==
    [status |-> IF t <= beh.fails THEN beh.kind ELSE beh.final, text |-> beh.text]

NoError == [type |-> "", msg |-> ""]
Error(type, msg) == [type |-> type, msg |-> msg]

\* the empty string
NoText == [kind |-> "empty"]

(***************************************************************************)
(* agent.py                                                                *)
(***************************************************************************)
\* Agent.__init__ followed by set_meta_prompt
Agent(model_name, name, temperature, system_prompt) ==
    [model_name |-> model_name, name |-> name, temperature |-> temperature,
     system_prompt |-> system_prompt]

Message(role, content) == [role |-> role, content |-> content]

\* f"{speaker}: {body}"
Said(speaker, body) == [speaker |-> speaker, body |-> body]

\* Agent._validate_model: TRUE when it raises
_validate_model_raises(agent) == agent.model_name \notin SUPPORT_MODELS

\* backoff.on_exception(..., max_tries=20)
max_tries == 20

\* the retry list widened by ValueError
RetriedErrorsWithValueError ==
    {"RateLimitError", "APIError", "ServiceUnavailableError", "APIConnectionError", "ValueError"}

\* the exception classes the decorator of query retries on
RetriedErrors == {"RateLimitError", "APIError", "ServiceUnavailableError", "APIConnectionError"}

\* Agent._make_openai_request on the service's response `resp`: the text
\* returned, or the exception that leaves the method.
_make_openai_request(messages, resp) ==
    CASE resp.status = "ok" ->
            [raised |-> FALSE, error |-> NoError, text |-> resp.text]
      [] resp.status \in {"missing_key", "empty_choices"} ->
            [raised |-> TRUE, text |-> NoText,
             error |-> Error("ValueError", "API returned unexpected response format.")]
      [] resp.status = "wrong_type" ->
            [raised |-> TRUE, text |-> NoText, error |-> Error("TypeError", "not subscriptable")]
      [] OTHER ->
            [raised |-> TRUE, text |-> NoText, error |-> Error(resp.status, "openai error")]

\* One execution of the body of Agent.query, the t-th of a call: the delay,
\* the validation, then the request.
QueryBody(agent, messages, beh, t) ==
    IF _validate_model_raises(agent)
    THEN [raised |-> TRUE, text |-> NoText, slept |-> 1, dispatched |-> 0,
          error |-> Error("ValueError", "Model not in SUPPORT_MODELS")]
    ELSE LET r == _make_openai_request(messages, Response(beh, t))
         IN  [raised |-> r.raised, text |-> r.text, slept |-> 1, dispatched |-> 1,
              error |-> r.error]

\* the decorator giving up one try late
RetriesOnceMore(error, tries) == error.type \in RetriedErrors /\ tries <= max_tries

\* The decorator's decision after a failed try: TRUE when it tries again.
Retries(error, tries) == error.type \in RetriedErrors /\ tries # max_tries

RECURSIVE QueryLoop(_, _, _, _, _, _)
QueryLoop(agent, messages, beh, tries, sleeps, dispatched) ==
    LET t == tries + 1
        r == QueryBody(agent, messages, beh, t)
    IN  IF r.raised /\ Retries(r.error, t)
        THEN QueryLoop(agent, messages, beh, t, sleeps + r.slept, dispatched + r.dispatched)
        ELSE [raised |-> r.raised, error |-> r.error, text |-> r.text, attempts |-> t,
              sleeps |-> sleeps + r.slept, dispatched |-> dispatched + r.dispatched]

\* Agent.query under its retry decorator
query(agent, messages, beh) == QueryLoop(agent, messages, beh, 0, 0, 0)

\* "[Summary unavailable]"
SummaryUnavailable == [kind |-> "summary_unavailable"]

\* the request summarize_memory makes on the service's answer `sumResp`
SummaryRequest(memory, sumResp) ==
    _make_openai_request(<<Message("system", [kind |-> "summarizer"])>> \o memory
                             \o <<Message("user", [kind |-> "provide_summary"])>>,
                         [status |-> sumResp, text |-> [kind |-> "summary", of |-> memory]])

\* a summarize_memory whose handler is `except ValueError`
SummarizeCatchesValueErrorOnly(memory, sumResp) ==
    LET r == SummaryRequest(memory, sumResp)
    IN  IF r.raised /\ r.error.type = "ValueError"
        THEN [raised |-> FALSE, error |-> NoError, text |-> SummaryUnavailable, requests |-> 1]
        ELSE [raised |-> r.raised, error |-> r.error, text |-> r.text, requests |-> 1]

\* Agent.summarize_memory: one request outside query, any exception replaced
\* by the placeholder.  `requests` counts the requests it dispatched.
summarize_memory(memory, sumResp) ==
    LET r == SummaryRequest(memory, sumResp)
    IN  IF r.raised
        THEN [raised |-> FALSE, error |-> NoError, text |-> SummaryUnavailable, requests |-> 1]
        ELSE [raised |-> FALSE, error |-> NoError, text |-> r.text, requests |-> 1]

\* the comparison with the threshold made strict
PrepareCompactsAtThreshold(shared_memory, c, sumResp) ==
    IF Len(shared_memory) < c.MEMORY_SUMMARIZE_THRESHOLD
    THEN [ctx |-> shared_memory, summarized |-> FALSE, sum_requests |-> 0,
          raised |-> FALSE, error |-> NoError]
    ELSE LET recent  == PySliceLast(shared_memory, c.MEMORY_KEEP_RECENT)
             summary == summarize_memory(PySliceButLast(shared_memory, c.MEMORY_KEEP_RECENT), sumResp)
         IN  [ctx |-> <<Message("system", [kind |-> "debate_summary", summary |-> summary.text])>> \o recent,
              summarized |-> TRUE, sum_requests |-> summary.requests,
              raised |-> summary.raised, error |-> summary.error]

\* Agent._prepare_memory_context: the context, whether a summarization
\* request was dispatched for it, and the exception leaving it, if any
_prepare_memory_context(shared_memory, c, sumResp) ==
    IF Len(shared_memory) <= c.MEMORY_SUMMARIZE_THRESHOLD
    THEN [ctx |-> shared_memory, summarized |-> FALSE, sum_requests |-> 0,
          raised |-> FALSE, error |-> NoError]
    ELSE LET recent  == PySliceLast(shared_memory, c.MEMORY_KEEP_RECENT)
             summary == summarize_memory(PySliceButLast(shared_memory, c.MEMORY_KEEP_RECENT), sumResp)
         IN  [ctx |-> <<Message("system", [kind |-> "debate_summary", summary |-> summary.text])>> \o recent,
              summarized |-> TRUE, sum_requests |-> summary.requests,
              raised |-> summary.raised, error |-> summary.error]

\* Agent._limit_tokens under a configured MAX_COMPLETION_TOKENS
_limit_tokens(max_tokens, max_completion_tokens) == Max(1, Min(max_tokens, max_completion_tokens))

RECURSIVE SumOf(_)
\* sum(...) over a list of numbers
SumOf(ns) == IF ns = <<>> THEN 0 ELSE Head(ns) + SumOf(Tail(ns))

\* the default of model2max_context.get(self.model_name, 128_000)
DefaultMaxContext == 128000

\* a budget computed without the floor
BudgetWithoutFloor(tokens, max_context, max_completion_tokens) ==
    Min(max_context - SumOf(tokens), max_completion_tokens)

\* Agent._calculate_max_tokens: `tokens` holds num_tokens_from_string of each
\* message's content, `max_context` is what the lookup of the model's context
\* size gave (the default for a model that is not in the table)
_calculate_max_tokens(tokens, max_context, max_completion_tokens) ==
    LET ctx_tokens == SumOf(tokens)
        available_tokens == max_context - ctx_tokens
    IN  Max(64, Min(available_tokens, max_completion_tokens))

\* Agent.ask
ask(agent, shared_memory, prompt, temperature, c, sumResp, beh) ==
    LET memory_ctx == _prepare_memory_context(shared_memory, c, sumResp)
        messages == <<Message("system", agent.system_prompt)>>
                        \o memory_ctx.ctx
                        \o <<Message("user", Said(agent.name, prompt))>>
        q == query(agent, messages, beh)
    IN  IF memory_ctx.raised
        THEN [agent |-> agent.name, model |-> agent.model_name, messages |-> <<>>,
              temperature |-> temperature, summarized |-> memory_ctx.summarized,
              sum_requests |-> memory_ctx.sum_requests,
              raised |-> TRUE, error |-> memory_ctx.error, text |-> NoText,
              attempts |-> 0, sleeps |-> 0, dispatched |-> 0]
        ELSE [agent |-> agent.name, model |-> agent.model_name, messages |-> messages,
              temperature |-> temperature, summarized |-> memory_ctx.summarized,
              sum_requests |-> memory_ctx.sum_requests,
              raised |-> q.raised, error |-> q.error, text |-> q.text,
              attempts |-> q.attempts, sleeps |-> q.sleeps, dispatched |-> q.dispatched]

(***************************************************************************)
(* evidence_system.py                                                      *)
(***************************************************************************)
Stances == {"SUPPORTS_TRUE", "SUPPORTS_FALSE", "NEUTRAL"}

\* the keyword lists the extractor may return in a run
KeywordLists == {[i \in 1..n |-> [kw |-> i]] : n \in 0..MaxKeywords}

\* an Evidence Bundle {'keywords': [...], 'evidence': {...}}; the dict is kept
\* as the sequence of its items in insertion order.  `present` is FALSE for
\* None.
Bundle(keywords, evidence) == [present |-> TRUE, keywords |-> keywords, evidence |-> evidence]
NoBundle == [present |-> FALSE, keywords |-> <<>>, evidence |-> <<>>]

\* the truth value of the 'evidence' dict alone: falsy when no record was found
TruthyWhenRecordsFound(bundle) == bundle.present /\ bundle.evidence # <<>>

\* truth value of `self.evidence_data`: None is falsy, a dict with its two
\* keys is truthy
Truthy(bundle) == bundle.present

\* d[k] = v on a dict kept in insertion order
DictSet(d, k, v) ==
    IF \E i \in 1..Len(d) : d[i].keyword = k
    THEN [i \in 1..Len(d) |-> IF d[i].keyword = k THEN v ELSE d[i]]
    ELSE Append(d, v)

\* the replies of the keyword extractor, by the shape the parser tells apart:
\*   "array"            begins with '[' and json.loads accepts the whole reply;
\*                      items are the array's elements
\*   "bracket_invalid"  begins with '[' and json.loads rejects the whole reply
\*                      ('["a", "b"] are the keywords'); items are the elements
\*                      of the array embedded in it, if any
\*   "embedded"         begins otherwise, the pattern finds '[...]' and
\*                      json.loads accepts the match; items are its elements
\*   "embedded_invalid" begins otherwise, the pattern finds '[...]' and
\*                      json.loads rejects the match; items are the reply's lines
\*   "lines"            contains no '[...]'; items are the reply's non-blank lines
KeywordReply(shape, items) == [kind |-> "keywords", shape |-> shape, items |-> items]

\* a line of a reply: its text once ' -•*' are stripped from both ends is a
\* keyword ("item"), empty ("bullets") or begins with '[' ("bracket")
Line(form, kw) == [form |-> form, kw |-> kw]

\* `if line and not line.startswith('[')`
KeptLine(line) == line.form = "item"

\* EvidenceSystem._parse_keywords_response
_parse_keywords_response(response) ==
    CASE response.shape = "array"           -> response.items
      [] response.shape = "bracket_invalid" -> <<>>
      [] response.shape = "embedded"        -> response.items
      [] response.shape = "lines"           ->
            LET kept == SelectSeq(response.items, KeptLine)
            IN  PySliceFirst([i \in 1..Len(kept) |-> [kw |-> kept[i].kw]], 4)
      [] OTHER                              -> <<>>

\* EvidenceSystem.extract_keywords, given how the extractor's ask ended
extract_keywords(r) ==
    IF r.raised THEN <<>> ELSE PySliceFirst(_parse_keywords_response(r.text), 5)

\* the replies of the evidence evaluator: the labels found in the upper-cased
\* reply as substrings
StanceReply(labels) == [kind |-> "stance", labels |-> labels]

\* EvidenceSystem.evaluate_evidence_stance, given how the evaluator's ask ended
evaluate_evidence_stance(r) ==
    IF r.raised THEN "NEUTRAL"
    ELSE IF "SUPPORTS_TRUE" \in r.text.labels \/ "TRUE" \in r.text.labels THEN "SUPPORTS_TRUE"
    ELSE IF "SUPPORTS_FALSE" \in r.text.labels \/ "FALSE" \in r.text.labels THEN "SUPPORTS_FALSE"
    ELSE "NEUTRAL"

\* a filter that keeps the desired stance only
KeepsExactStance(evidence_stance, desired_stance) == evidence_stance = desired_stance

\* the condition under which filter_evidence_by_stance keeps a record
KeepsStance(evidence_stance, desired_stance) ==
    evidence_stance = desired_stance \/ evidence_stance = "NEUTRAL"

\* EvidenceSystem.filter_evidence_by_stance
filter_evidence_by_stance(bundle, desired_stance) ==
    IF bundle.evidence = <<>> THEN bundle
    ELSE Bundle(bundle.keywords,
                SelectSeq(bundle.evidence, LAMBDA info : KeepsStance(info.stance, desired_stance)))

\* EvidenceSystem.format_evidence_for_debate: the notice that nothing was
\* found, or one block (title, extract, source) per record in dict order
format_evidence_for_debate(bundle) ==
    [kind |-> "evidence_text", found |-> bundle.evidence # <<>>,
     items |-> [i \in 1..Len(bundle.evidence) |-> [title |-> bundle.evidence[i].keyword]]]

\* has_favorable_evidence counting NEUTRAL records as the filter does
HasKeptEvidence(bundle, stance) ==
    /\ bundle.evidence # <<>>
    /\ \E i \in 1..Len(bundle.evidence) : KeepsStance(bundle.evidence[i].stance, stance)

\* EvidenceSystem.has_favorable_evidence
has_favorable_evidence(bundle, stance) ==
    /\ bundle.evidence # <<>>
    /\ \E i \in 1..Len(bundle.evidence) : bundle.evidence[i].stance = stance

(***************************************************************************)
(* engine.py: roles and prompts                                            *)
(***************************************************************************)
StartsWith(r, prefix) == r.side = prefix

Sides == {"Affirmative", "Negative"}

\* Debate._create_role_configs / _init_agents: the keys of self.agents in
\* insertion order (ROLES order, then the summary judge)
AgentOrder ==
    [i \in 1..Len(DEBATE_ROLES) |-> Role("Affirmative", DEBATE_ROLES[i])]
    \o [i \in 1..Len(DEBATE_ROLES) |-> Role("Negative", DEBATE_ROLES[i])]
    \o [i \in 1..Len(SCORING_JUDGE_ROLES) |-> Role("Judge", SCORING_JUDGE_ROLES[i])]
    \o <<Role("Judge", SUMMARY_JUDGE_CONFIG)>>

AllRoles == Range(AgentOrder)

\* a setup that treats the judges like the debate roles
EveryRoleOrder == AgentOrder

\* the roles for which _generate_profiles / _setup_domain_context act
NonJudgeOrder == SelectSeq(AgentOrder, LAMBDA r : ~StartsWith(r, "Judge"))

DomainDetector == Role("DomainDetector", "")
KeywordExtractor == Role("KeywordExtractor", "")
EvidenceEvaluator == Role("EvidenceEvaluator", "")
Evidence_System == Role("Evidence_System", "")

MetaPrompt(r) == <<[kind |-> "meta_prompt", of |-> r]>>

Unfilled == [kind |-> "unfilled"]
News == [kind |-> "news"]

\* Debate._get_fixed_stance
_get_fixed_stance(speaker) ==
    CASE speaker.side = "Affirmative" -> "news is true"
      [] speaker.side = "Negative"    -> "news is false"
      [] OTHER                        -> ""

\* Debate._get_speaker_stance
_get_speaker_stance(speaker) ==
    CASE StartsWith(speaker, "Affirmative") -> "SUPPORTS_TRUE"
      [] StartsWith(speaker, "Negative")    -> "SUPPORTS_FALSE"
      [] OTHER                              -> "NEUTRAL"

\* Debate._opponent
_opponent(role) ==
    CASE role.side = "Affirmative" -> Role("Negative", role.duty)
      [] role.side = "Negative"    -> Role("Affirmative", role.duty)
      [] OTHER                     -> role

RECURSIVE LastFrom(_, _, _)
LastFrom(mem, role, i) ==
    IF i = 0 THEN NoText
    ELSE IF mem[i].role = "assistant" /\ mem[i].content.speaker = role THEN mem[i].content.body
    ELSE LastFrom(mem, role, i - 1)

\* Debate._last
_last(role) == LastFrom(shared, role, Len(shared))

\* template.format(news=, turn=, opp=[, evidence=]): a slot the template does
\* not contain is left out of the text
Format(tpl, t, opp, evidence) ==
    [tpl |-> tpl,
     news |-> IF "news" \in TemplateSlots(tpl) THEN News ELSE Unfilled,
     turn |-> IF "turn" \in TemplateSlots(tpl) THEN t ELSE 0,
     opp  |-> IF "opp" \in TemplateSlots(tpl) THEN opp ELSE Unfilled,
     evidence |-> IF "evidence" \in TemplateSlots(tpl) THEN evidence ELSE Unfilled]

\* _get_speakers_sequence with the cycle applied to every phase
SpeakersCycleEveryPhase(phase, speakers) ==
    [i \in 1..(IF Len(speakers) = 0 THEN 0 ELSE 2 * cfg.FREE_ROUNDS)
        |-> speakers[((i - 1) % Len(speakers)) + 1]]

\* a Free phase of FREE_ROUNDS turns
SpeakersOneTurnPerRound(phase, speakers) ==
    IF phase # "Free" THEN speakers
    ELSE [i \in 1..(IF Len(speakers) = 0 THEN 0 ELSE cfg.FREE_ROUNDS)
            |-> speakers[((i - 1) % Len(speakers)) + 1]]

\* a Free phase of FREE_ROUNDS rounds in each of which the whole roster speaks
SpeakersRoundsOfRoster(phase, speakers) ==
    IF phase # "Free" THEN speakers
    ELSE [i \in 1..(cfg.FREE_ROUNDS * Len(speakers)) |-> speakers[((i - 1) % Len(speakers)) + 1]]

\* Debate._get_speakers_sequence; FREE_ROUNDS is read from the configuration
_get_speakers_sequence(phase, speakers) ==
    IF phase # "Free" THEN speakers
    ELSE [i \in 1..(IF Len(speakers) = 0 THEN 0 ELSE 2 * cfg.FREE_ROUNDS)
            |-> speakers[((i - 1) % Len(speakers)) + 1]]

\* Debate._get_evidence_for_speaker; NoBundle stands for None
_get_evidence_for_speaker(speaker) ==
    IF ~cfg.ENABLE_EVIDENCE \/ ~Truthy(evidence_data) THEN NoBundle
    ELSE IF StartsWith(speaker, "Affirmative")
         THEN (IF has_favorable_evidence(affirmative_evidence, "SUPPORTS_TRUE")
               THEN affirmative_evidence ELSE NoBundle)
    ELSE IF StartsWith(speaker, "Negative")
         THEN (IF has_favorable_evidence(negative_evidence, "SUPPORTS_FALSE")
               THEN negative_evidence ELSE NoBundle)
    ELSE NoBundle

\* the phase test of _build_prompt that opens the evidence branch
InEvidenceBranch(phase) == phase = "Free" /\ cfg.ENABLE_EVIDENCE /\ Truthy(evidence_data)

\* Debate._build_prompt
_build_prompt(speaker, template, t, phase) ==
    LET stance_reminder == _get_fixed_stance(speaker)
        speaker_evidence == _get_evidence_for_speaker(speaker)
        base_prompt ==
            IF InEvidenceBranch(phase)
            THEN IF Truthy(speaker_evidence) /\ speaker_evidence.evidence # <<>>
                 THEN Format("Free_Evidence", t, _last(_opponent(speaker)),
                             format_evidence_for_debate(speaker_evidence))
                 ELSE Format(template, t, _last(_opponent(speaker)), Unfilled)
            ELSE Format(template, t, _last(_opponent(speaker)), Unfilled)
    IN  [reminder |-> stance_reminder, base |-> base_prompt]

\* a debate content made of the whole Transcript
DebateContentUnfiltered == transcript

\* Debate._get_debate_content
_get_debate_content ==
    SelectSeq(transcript, LAMBDA entry : ~StartsWith(entry.speaker, "Judge")
                                          /\ entry.speaker # Evidence_System)

\* the evidence_context of the judge and summary prompts
EvidenceContext ==
    IF Truthy(evidence_data) /\ cfg.ENABLE_EVIDENCE
    THEN format_evidence_for_debate(evidence_data) ELSE Unfilled

\* judge_prompt_template of _calculate_scores
JudgePrompt ==
    [reminder |-> "",
     base |-> [tpl |-> "Judge", news |-> News, debate_content |-> _get_debate_content,
               evidence |-> EvidenceContext]]

\* summary_prompt of _get_debate_summary_with_verdict
SummaryPrompt(sc, v) ==
    [reminder |-> "",
     base |-> [tpl |-> "Summary", news |-> News, debate_content |-> _get_debate_content,
               evidence |-> EvidenceContext, scores |-> sc, verdict |-> v]]

\* the scoring judges taken in reverse order
ScoringJudgeReversed(j) ==
    Role("Judge", SCORING_JUDGE_ROLES[Len(SCORING_JUDGE_ROLES) + 1 - j])

\* the judge of the j-th iteration of the loop of _calculate_scores
ScoringJudge(j) == Role("Judge", SCORING_JUDGE_ROLES[j])

\* the replies of a judge, by what _extract reads in them: the first {...}
\* block ("none", "invalid" for one json.loads rejects, "object"), for each
\* side whether the object holds it, its value, whether int() accepts the
\* value, and the digit the fallback pattern finds for the side (-1: no match)
JudgeReply(block, has, val, coercible, pat) ==
    [kind |-> "judge", block |-> block, has |-> has, val |-> val,
     coercible |-> coercible, pat |-> pat]

BothSides(a, n) == [Affirmative |-> a, Negative |-> n]

\* Debate._extract
_extract(text, side) ==
    IF text.block = "object" /\ (~text.has[side] \/ text.coercible[side])
    THEN (IF text.has[side] THEN text.val[side] ELSE 0)
    ELSE IF text.pat[side] >= 0 THEN text.pat[side] ELSE 0

\* a verdict rule that gives a tie to the Negative side
VerdictTieIsFake(sc) ==
    IF sc.Affirmative > sc.Negative THEN "REAL" ELSE "FAKE"

\* Debate._determine_verdict
_determine_verdict(sc) ==
    IF sc.Affirmative > sc.Negative THEN "REAL"
    ELSE IF sc.Negative > sc.Affirmative THEN "FAKE"
    ELSE "UNCERTAIN"

(***************************************************************************)
(* The run: Debate.__init__ and Debate.run                                 *)
(***************************************************************************)
\* the model names a Debate is constructed with: a supported one and one
\* that is not in SUPPORT_MODELS
ModelNames == {"gpt-4o-mini", "text-davinci-003"}

\* what the completion service may do during one ask of the run
Behaviours(text) ==
    { Behaviour(0, "RateLimitError", "ok", text),
      Behaviour(1, "APIConnectionError", "ok", text),
      Behaviour(max_tries, "RateLimitError", "ok", text),
      Behaviour(0, "RateLimitError", "missing_key", text) }

\* what it may answer to the summarization request of an ask on `memory`
\* (none is made for a memory within the threshold)
SumResponses(memory) ==
    IF Len(memory) <= cfg.MEMORY_SUMMARIZE_THRESHOLD THEN {"ok"} ELSE {"ok", "APIConnectionError"}

\* every way an ask of the run may end: one per reply the model may generate,
\* per behaviour of the service and per answer to the summarization request
Asks(agent, memory, prompt, temperature, texts) ==
    UNION { { ask(agent, memory, prompt, temperature, cfg, sumResp, beh) :
                beh \in Behaviours(text), sumResp \in SumResponses(memory) } : text \in texts }

\* the replies of the run's agents
SpeechOf(speaker) == [kind |-> "speech", by |-> speaker, n |-> Len(shared) \div 2 + 1]

\* '{"Affirmative": 5, "Negative": 2}' and 'A: 1, N: 3'
JudgeReplies ==
    { JudgeReply("object", BothSides(TRUE, TRUE), BothSides(5, 2), BothSides(TRUE, TRUE), BothSides(-1, -1)),
      JudgeReply("none", BothSides(FALSE, FALSE), BothSides(0, 0), BothSides(FALSE, FALSE), BothSides(1, 3)) }

StanceReplies ==
    { StanceReply({"SUPPORTS_TRUE", "TRUE"}), StanceReply({"SUPPORTS_FALSE", "FALSE"}),
      StanceReply({}) }

KeywordReplies ==
    {KeywordReply("array", kws) : kws \in KeywordLists} \cup {KeywordReply("bracket_invalid", <<>>)}

NoCall ==
    [site |-> "none", agent |-> Role("", ""), messages |-> <<>>, temperature |-> 0,
     summarized |-> FALSE, raised |-> FALSE, error |-> NoError]

\* what the run keeps of an ask made at `site`
CallAt(site, r) ==
    [site |-> site, agent |-> r.agent, messages |-> r.messages, temperature |-> r.temperature,
     summarized |-> r.summarized, raised |-> r.raised, error |-> r.error]

NoGather == [keywords |-> <<>>, i |-> 0, evidence |-> <<>>, ret |-> "none"]

NoSave == [written |-> FALSE, scores |-> BothSides(0, 0), verdict |-> "", summary |-> NoText]

Configs ==
    [ENABLE_EVIDENCE : BOOLEAN, EVIDENCE_PHASE : PhaseNames, FREE_ROUNDS : 0..MaxFreeRounds,
     MEMORY_SUMMARIZE_THRESHOLD : {MEMORY_SUMMARIZE_THRESHOLD},
     MEMORY_KEEP_RECENT : {MEMORY_KEEP_RECENT},
     model_name : ModelNames]

\* Debate.__init__
Init ==
    /\ cfg \in Configs
    /\ pc = "detect_domain"
    /\ agents = [r \in AllRoles |-> MetaPrompt(r)]
    /\ domain = NoText
    /\ profiles = <<>>
    /\ shared = <<>>
    /\ transcript = <<>>
    /\ evidence_data = NoBundle
    /\ affirmative_evidence = NoBundle
    /\ negative_evidence = NoBundle
    /\ gather = NoGather
    /\ phaseIdx = 0
    /\ turn = 0
    /\ phases_entered = <<>>
    /\ judge_prompt_template = [reminder |-> "", base |-> Unfilled]
    /\ jIdx = 0
    /\ scores = BothSides(0, 0)
    /\ verdict = ""
    /\ saved = NoSave
    /\ reqlog = <<>>
    /\ call = NoCall
    /\ probe = [op |-> "none"]

\* the Agent of a role of the run
AgentOf(r) == Agent(cfg.model_name, r, 10, agents[r])

\* a run that logs the prompt of a turn before asking
AbortKeepsPrompt(site, r) ==
    /\ pc' = "aborted"
    /\ call' = CallAt(site, r)
    /\ reqlog' = Append(reqlog, r.agent)
    /\ shared' = IF r.messages = <<>> THEN shared
                 ELSE Append(shared, r.messages[Len(r.messages)])
    /\ UNCHANGED << cfg, agents, domain, profiles, transcript, evidence_data,
                    affirmative_evidence, negative_evidence, gather, phaseIdx, turn,
                    phases_entered, judge_prompt_template, jIdx, scores, verdict, saved, probe >>

\* an exception that leaves Debate.run: the run ends where it was raised
Abort(site, r) ==
    /\ pc' = "aborted"
    /\ call' = CallAt(site, r)
    /\ reqlog' = Append(reqlog, r.agent)
    /\ UNCHANGED << cfg, agents, domain, profiles, shared, transcript, evidence_data,
                    affirmative_evidence, negative_evidence, gather, phaseIdx, turn,
                    phases_entered, judge_prompt_template, jIdx, scores, verdict, saved, probe >>

\* the try / except of evaluate_evidence_stance left out
CaughtKeywordsOnly(site) == site \in {"keywords"}

\* no try / except around any ask
CaughtNowhere(site) == FALSE

\* TRUE for the call sites whose ask is inside a try / except Exception
Caught(site) == site \in {"keywords", "stance"}

\* TRUE when the exception of an ask made at `site` leaves Debate.run
Propagates(site, r) == r.raised /\ ~Caught(site)

\* a _record that keeps the compacted context in place of the log
RecordOntoPresentedContext(role, prompt, reply) ==
    /\ shared' = _prepare_memory_context(shared, cfg, "ok").ctx
                      \o << Message("user", Said(role, prompt)),
                            Message("assistant", Said(role, reply)) >>
    /\ transcript' =
          IF transcript # <<>> /\ transcript[Len(transcript)].speaker = role
          THEN [transcript EXCEPT ![Len(transcript)].text = @ \o <<reply>>]
          ELSE Append(transcript, [speaker |-> role, text |-> <<reply>>])

\* a _record that starts a new Transcript entry for every turn
RecordAlwaysAppends(role, prompt, reply) ==
    /\ shared' = shared \o << Message("user", Said(role, prompt)),
                              Message("assistant", Said(role, reply)) >>
    /\ transcript' = Append(transcript, [speaker |-> role, text |-> <<reply>>])

\* Debate._record; the text of a Transcript entry is kept as the list of the
\* replies joined in it by "\n\n"
_record(role, prompt, reply) ==
    /\ shared' = shared \o << Message("user", Said(role, prompt)),
                              Message("assistant", Said(role, reply)) >>
    /\ transcript' =
          IF transcript # <<>> /\ transcript[Len(transcript)].speaker = role
          THEN [transcript EXCEPT ![Len(transcript)].text = @ \o <<reply>>]
          ELSE Append(transcript, [speaker |-> role, text |-> <<reply>>])

\* Debate._detect_domain, first line of _setup_domain_context
DetectDomain ==
    /\ pc = "detect_domain"
    /\ LET detector == Agent(cfg.model_name, DomainDetector, 0, MetaPrompt(DomainDetector))
       IN \E r \in Asks(detector, <<>>, News, detector.temperature, {[kind |-> "domain"]}) :
             IF Propagates("domain", r) THEN Abort("domain", r)
             ELSE /\ domain' = r.text
                  /\ pc' = "profiles"
                  /\ call' = CallAt("domain", r)
                  /\ reqlog' = Append(reqlog, r.agent)
                  /\ UNCHANGED << cfg, agents, profiles, shared, transcript, evidence_data,
                                  affirmative_evidence, negative_evidence, gather, phaseIdx,
                                  turn, phases_entered, judge_prompt_template, jIdx, scores,
                                  verdict, saved, probe >>

\* where run goes after _setup_domain_context
AfterSetup ==
    IF cfg.EVIDENCE_PHASE = "Opening" /\ cfg.ENABLE_EVIDENCE
    THEN /\ pc' = "extract_keywords"
         /\ gather' = [NoGather EXCEPT !.ret = "phase"]
    ELSE /\ pc' = "phase"
         /\ gather' = gather

\* one iteration of the loop of Debate._generate_profiles; the last one is
\* followed by the rest of _setup_domain_context
GenerateProfile ==
    /\ pc = "profiles"
    /\ LET role_name == NonJudgeOrder[Len(profiles) + 1]
           prompt == [reminder |-> "", base |-> [tpl |-> "Profile", domain |-> domain, of |-> role_name]]
       IN \E r \in Asks(AgentOf(role_name), <<>>, prompt, 10, {[kind |-> "profile", of |-> role_name]}) :
            LET profs == Append(profiles, [role |-> role_name, text |-> r.text])
            IN  IF Propagates("profile", r) THEN Abort("profile", r)
                ELSE /\ profiles' = profs
                     /\ call' = CallAt("profile", r)
                     /\ reqlog' = Append(reqlog, r.agent)
                     /\ IF Len(profs) = Len(NonJudgeOrder)
                        THEN /\ agents' = [a \in AllRoles |->
                                    IF StartsWith(a, "Judge") THEN agents[a]
                                    ELSE agents[a] \o << [kind |-> "domain", text |-> domain],
                                                         [kind |-> "profile",
                                                          text |-> (CHOOSE x \in Range(profs) : x.role = a).text] >>]
                             /\ phaseIdx' = 1
                             /\ AfterSetup
                        ELSE UNCHANGED << agents, pc, phaseIdx, gather >>
                     /\ UNCHANGED << cfg, domain, shared, transcript, evidence_data,
                                     affirmative_evidence, negative_evidence, turn,
                                     phases_entered, judge_prompt_template, jIdx, scores,
                                     verdict, saved, probe >>

\* where the loop of _run_debate_phases stands when turn t of phase p is next
Advance(p, t) ==
    IF t <= Len(_get_speakers_sequence(PHASES[p].phase, PHASES[p].speakers))
    THEN [pc |-> "turn", phaseIdx |-> p, turn |-> t]
    ELSE IF p < Len(PHASES)
    THEN [pc |-> "phase", phaseIdx |-> p + 1, turn |-> 0]
    ELSE [pc |-> "calculate_scores", phaseIdx |-> p, turn |-> 0]

\* the rest of Debate._gather_evidence once gather_evidence has returned
\* (keywords, evidence): the bundle, its two filtered views and the summary
\* entry of the Transcript
_gather_evidence(keywords, evidence) ==
    LET data == Bundle(keywords, evidence)
        aff  == filter_evidence_by_stance(data, "SUPPORTS_TRUE")
        neg  == filter_evidence_by_stance(data, "SUPPORTS_FALSE")
        evidence_summary ==
            [kind |-> "evidence_summary", total |-> Len(data.evidence),
             aff |-> Len(aff.evidence), neg |-> Len(neg.evidence)]
    IN  /\ evidence_data' = data
        /\ affirmative_evidence' = aff
        /\ negative_evidence' = neg
        /\ transcript' = Append(transcript, [speaker |-> Evidence_System, text |-> <<evidence_summary>>])

\* _gather_evidence and the return to its caller
GatherReturns(keywords, evidence) ==
    LET next == IF gather.ret = "phase" THEN [pc |-> "phase", phaseIdx |-> phaseIdx, turn |-> 0]
                ELSE Advance(phaseIdx, 1)
    IN  /\ _gather_evidence(keywords, evidence)
        /\ gather' = [keywords |-> keywords, i |-> Len(keywords) + 1, evidence |-> evidence,
                      ret |-> "none"]
        /\ pc' = next.pc
        /\ phaseIdx' = next.phaseIdx
        /\ turn' = next.turn

\* EvidenceSystem.gather_evidence up to its loop: extract_keywords
ExtractKeywords ==
    /\ pc = "extract_keywords"
    /\ LET extractor == Agent(cfg.model_name, KeywordExtractor, 10, MetaPrompt(KeywordExtractor))
       IN \E r \in Asks(extractor, <<>>, News, 10, KeywordReplies) :
         LET keywords == extract_keywords(r)
         IN  IF Propagates("keywords", r) THEN Abort("keywords", r)
             ELSE /\ call' = CallAt("keywords", r)
                  /\ reqlog' = Append(reqlog, r.agent)
                  /\ IF keywords = <<>>
                     THEN GatherReturns(keywords, <<>>)
                     ELSE /\ gather' = [gather EXCEPT !.keywords = keywords, !.i = 1, !.evidence = <<>>]
                          /\ pc' = "gather_loop"
                          /\ UNCHANGED << evidence_data, affirmative_evidence, negative_evidence,
                                          transcript, phaseIdx, turn >>
                  /\ UNCHANGED << cfg, agents, domain, profiles, shared, phases_entered,
                                  judge_prompt_template, jIdx, scores, verdict, saved, probe >>

\* one iteration of the loop of EvidenceSystem.gather_evidence:
\* search_wikipedia (found or None) and, when found, evaluate_evidence_stance
GatherKeyword ==
    /\ pc = "gather_loop"
    /\ LET keyword == gather.keywords[gather.i]
           last == gather.i = Len(gather.keywords)
       IN \/ \* search_wikipedia returns None: not found, or its request failed
             /\ IF last THEN GatherReturns(gather.keywords, gather.evidence)
                ELSE /\ gather' = [gather EXCEPT !.i = @ + 1]
                     /\ UNCHANGED << pc, evidence_data, affirmative_evidence, negative_evidence,
                                     transcript, phaseIdx, turn >>
             /\ UNCHANGED << call, reqlog >>
             /\ UNCHANGED << cfg, agents, domain, profiles, shared, phases_entered,
                             judge_prompt_template, jIdx, scores, verdict, saved, probe >>
          \/ \* search_wikipedia returns a record
             LET evaluator == Agent(cfg.model_name, EvidenceEvaluator, 10, MetaPrompt(EvidenceEvaluator))
                 prompt == [reminder |-> "", base |-> [tpl |-> "Evaluate", news |-> News, title |-> keyword]]
             IN \E r \in Asks(evaluator, <<>>, prompt, 10, StanceReplies) :
               LET wiki_result == [keyword |-> keyword, stance |-> evaluate_evidence_stance(r)]
                   evidence == DictSet(gather.evidence, keyword, wiki_result)
               IN  IF Propagates("stance", r) THEN Abort("stance", r)
                   ELSE /\ call' = CallAt("stance", r)
                        /\ reqlog' = Append(reqlog, r.agent)
                        /\ IF last THEN GatherReturns(gather.keywords, evidence)
                           ELSE /\ gather' = [gather EXCEPT !.i = @ + 1, !.evidence = evidence]
                                /\ UNCHANGED << pc, evidence_data, affirmative_evidence,
                                                negative_evidence, transcript, phaseIdx, turn >>
                        /\ UNCHANGED << cfg, agents, domain, profiles, shared, phases_entered,
                                        judge_prompt_template, jIdx, scores, verdict, saved, probe >>

\* the head of one iteration of the phase loop of _run_debate_phases
EnterPhase ==
    /\ pc = "phase"
    /\ phases_entered' = Append(phases_entered, PHASES[phaseIdx].phase)
    /\ IF PHASES[phaseIdx].phase = cfg.EVIDENCE_PHASE /\ cfg.ENABLE_EVIDENCE /\ ~Truthy(evidence_data)
       THEN /\ pc' = "extract_keywords"
            /\ gather' = [NoGather EXCEPT !.ret = "turn"]
            /\ UNCHANGED << phaseIdx, turn >>
       ELSE LET next == Advance(phaseIdx, 1)
            IN  /\ pc' = next.pc
                /\ phaseIdx' = next.phaseIdx
                /\ turn' = next.turn
                /\ UNCHANGED gather
    /\ UNCHANGED << cfg, agents, domain, profiles, shared, transcript, evidence_data,
                    affirmative_evidence, negative_evidence, judge_prompt_template, jIdx,
                    scores, verdict, saved, reqlog, call, probe >>

\* one iteration of the speaker loop: _build_prompt, then Debate._ask
DebateTurn ==
    /\ pc = "turn"
    /\ LET ph == PHASES[phaseIdx]
           sp == _get_speakers_sequence(ph.phase, ph.speakers)[turn]
           prompt == _build_prompt(sp, ph.tpl, turn, ph.phase)
           next == Advance(phaseIdx, turn + 1)
       IN \E r \in Asks(AgentOf(sp), shared, prompt, 10, {SpeechOf(sp)}) :
                IF Propagates("turn", r) THEN Abort("turn", r)
                ELSE /\ _record(sp, prompt, r.text)
                     /\ call' = CallAt("turn", r)
                     /\ reqlog' = Append(reqlog, r.agent)
                     /\ pc' = next.pc
                     /\ phaseIdx' = next.phaseIdx
                     /\ turn' = next.turn
                     /\ UNCHANGED << cfg, agents, domain, profiles, evidence_data,
                                     affirmative_evidence, negative_evidence, gather,
                                     phases_entered, judge_prompt_template, jIdx, scores,
                                     verdict, saved, probe >>

\* Debate._calculate_scores up to its loop
StartScoring ==
    /\ pc = "calculate_scores"
    /\ scores' = BothSides(0, 0)
    /\ judge_prompt_template' = JudgePrompt
    /\ jIdx' = 1
    /\ pc' = IF Len(SCORING_JUDGE_ROLES) = 0 THEN "verdict" ELSE "judge"
    /\ UNCHANGED << cfg, agents, domain, profiles, shared, transcript, evidence_data,
                    affirmative_evidence, negative_evidence, gather, phaseIdx, turn,
                    phases_entered, verdict, saved, reqlog, call, probe >>

\* one iteration of the loop of Debate._calculate_scores
JudgeScore ==
    /\ pc = "judge"
    /\ LET judge == ScoringJudge(jIdx)
       IN \E r \in Asks(AgentOf(judge), shared, judge_prompt_template, 10, JudgeReplies) :
                IF Propagates("judge", r) THEN Abort("judge", r)
                ELSE /\ _record(judge, judge_prompt_template, r.text)
                     /\ call' = CallAt("judge", r)
                     /\ reqlog' = Append(reqlog, r.agent)
                     /\ scores' = BothSides(scores.Affirmative + _extract(r.text, "Affirmative"),
                                            scores.Negative + _extract(r.text, "Negative"))
                     /\ jIdx' = jIdx + 1
                     /\ pc' = IF jIdx = Len(SCORING_JUDGE_ROLES) THEN "verdict" ELSE "judge"
                     /\ UNCHANGED << cfg, agents, domain, profiles, evidence_data,
                                     affirmative_evidence, negative_evidence, gather, phaseIdx,
                                     turn, phases_entered, judge_prompt_template, verdict,
                                     saved, probe >>

\* Debate._judge between the scores and the summary
DetermineVerdict ==
    /\ pc = "verdict"
    /\ verdict' = _determine_verdict(scores)
    /\ pc' = "summary"
    /\ UNCHANGED << cfg, agents, domain, profiles, shared, transcript, evidence_data,
                    affirmative_evidence, negative_evidence, gather, phaseIdx, turn,
                    phases_entered, judge_prompt_template, jIdx, scores, saved, reqlog,
                    call, probe >>

\* Debate._get_debate_summary_with_verdict and the rest of _judge (_save)
SummaryJudge ==
    /\ pc = "summary"
    /\ LET summary_judge == Role("Judge", SUMMARY_JUDGE_CONFIG)
           summary_prompt == SummaryPrompt(scores, verdict)
       IN \E r \in Asks(AgentOf(summary_judge), shared, summary_prompt, 10, {[kind |-> "summary_text"]}) :
                IF Propagates("summary", r) THEN Abort("summary", r)
                ELSE /\ _record(summary_judge, summary_prompt, r.text)
                     /\ call' = CallAt("summary", r)
                     /\ reqlog' = Append(reqlog, r.agent)
                     /\ saved' = IF AUTO_SAVE
                                  THEN [written |-> TRUE, scores |-> scores, verdict |-> verdict,
                                        summary |-> r.text]
                                  ELSE saved
                     /\ pc' = "done"
                     /\ UNCHANGED << cfg, agents, domain, profiles, evidence_data,
                                     affirmative_evidence, negative_evidence, gather, phaseIdx,
                                     turn, phases_entered, judge_prompt_template, jIdx, scores,
                                     verdict, probe >>

Next ==
    \/ DetectDomain
    \/ GenerateProfile
    \/ ExtractKeywords
    \/ GatherKeyword
    \/ EnterPhase
    \/ DebateTurn
    \/ StartScoring
    \/ JudgeScore
    \/ DetermineVerdict
    \/ SummaryJudge

Spec == Init /\ [][Next]_vars

\* the run has returned, or an exception has left it
Ended == pc \in {"done", "aborted"}

\* Debate.run is one sequential call: while a step is left, and the external
\* call it waits for returns or raises, the step is taken.  This is weak
\* fairness of Next, WF_vars(Next), written out: a step is enabled exactly in
\* the states where the run has not ended.
SpecFair == Init /\ [][Next]_vars /\ ([]<>Ended \/ []<><<Next>>_vars)

(***************************************************************************)
(* Agent.ask and Agent.query called directly, on any history, model and    *)
(* service behaviour                                                       *)
(***************************************************************************)
\* a history of n entries
History(n) ==
    [i \in 1..n |-> Message(IF i % 2 = 1 THEN "user" ELSE "assistant",
                            Said(Role("Affirmative", "Opening"), [kind |-> "entry", n |-> i]))]

ProbeText == [kind |-> "completion"]

ProbeBehaviours ==
    { Behaviour(fails, kind, final, ProbeText) :
        fails \in 0..(max_tries + 1), kind \in TransientErrors, final \in FinalResponses }

ProbeSumResponses == {"ok", "missing_key", "wrong_type", "RateLimitError"}

ProbeConfigs ==
    [ENABLE_EVIDENCE : {ENABLE_EVIDENCE}, EVIDENCE_PHASE : {EVIDENCE_PHASE},
     FREE_ROUNDS : {FREE_ROUNDS},
     MEMORY_SUMMARIZE_THRESHOLD : 0..MaxThreshold,
     MEMORY_KEEP_RECENT : 0..MaxKeep,
     model_name : ModelNames]

NoResult ==
    [agent |-> Role("", ""), model |-> "", messages |-> <<>>, temperature |-> 0,
     summarized |-> FALSE, sum_requests |-> 0, raised |-> FALSE, error |-> NoError,
     text |-> NoText, attempts |-> 0, sleeps |-> 0, dispatched |-> 0]

InitAgent ==
    /\ cfg \in ProbeConfigs
    /\ pc = "agent"
    /\ agents = [r \in AllRoles |-> MetaPrompt(r)]
    /\ domain = NoText
    /\ profiles = <<>>
    /\ shared = <<>>
    /\ transcript = <<>>
    /\ evidence_data = NoBundle
    /\ affirmative_evidence = NoBundle
    /\ negative_evidence = NoBundle
    /\ gather = NoGather
    /\ phaseIdx = 0
    /\ turn = 0
    /\ phases_entered = <<>>
    /\ judge_prompt_template = [reminder |-> "", base |-> Unfilled]
    /\ jIdx = 0
    /\ scores = BothSides(0, 0)
    /\ verdict = ""
    /\ saved = NoSave
    /\ reqlog = <<>>
    /\ call = NoCall
    /\ \E op \in {"ask", "query"}, n \in 0..MaxHist, beh \in ProbeBehaviours,
          sumResp \in ProbeSumResponses :
         /\ op = "query" => sumResp = "ok"
         /\ probe = [op |-> op, n |-> n, beh |-> beh, sumResp |-> sumResp, done |-> FALSE,
                     result |-> NoResult]

ProbeAgent == Agent(cfg.model_name, Role("Affirmative", "Opening"), 10,
                    MetaPrompt(Role("Affirmative", "Opening")))

ProbeUnchanged ==
    UNCHANGED << cfg, pc, agents, domain, profiles, shared, transcript, evidence_data,
                 affirmative_evidence, negative_evidence, gather, phaseIdx, turn,
                 phases_entered, judge_prompt_template, jIdx, scores, verdict, saved,
                 reqlog, call >>

\* agent.ask(history, prompt)
AgentAsk ==
    /\ pc = "agent" /\ probe.op = "ask" /\ ~probe.done
    /\ probe' = [probe EXCEPT !.done = TRUE,
                  !.result = ask(ProbeAgent, History(probe.n), [reminder |-> "", base |-> Unfilled],
                                 ProbeAgent.temperature, cfg, probe.sumResp, probe.beh)]
    /\ ProbeUnchanged

\* agent.query(messages, max_tokens, temperature)
AgentQuery ==
    /\ pc = "agent" /\ probe.op = "query" /\ ~probe.done
    /\ LET q == query(ProbeAgent, History(probe.n), probe.beh)
       IN  probe' = [probe EXCEPT !.done = TRUE,
                     !.result = [NoResult EXCEPT !.agent = ProbeAgent.name,
                                    !.model = ProbeAgent.model_name,
                                    !.messages = History(probe.n), !.temperature = 10,
                                    !.raised = q.raised, !.error = q.error, !.text = q.text,
                                    !.attempts = q.attempts, !.sleeps = q.sleeps,
                                    !.dispatched = q.dispatched]]
    /\ ProbeUnchanged

NextAgent == AgentAsk \/ AgentQuery

SpecAgent == InitAgent /\ [][NextAgent]_vars

(***************************************************************************)
(* The pure functions of agent.py and engine.py applied to inputs of every *)
(* shape                                                                   *)
(***************************************************************************)
\* token estimates of one message's content
TokenCounts == {0, 1, 4032, 4033, 8192, 127936, 200000}

\* what the lookup of the model's maximum context can give: the size of a
\* model in the table, or the default
ContextSizes == {4096, 8192, DefaultMaxContext}

\* configured values of MAX_COMPLETION_TOKENS
CompletionCaps == {1, 63, 64, 65, MAX_COMPLETION_TOKENS, 200000}

TokenLists == UNION {[1..n -> TokenCounts] : n \in 0..MaxMessages}

BudgetInputs ==
    [op : {"budget"}, tokens : TokenLists, max_context : ContextSizes,
     max_completion_tokens : CompletionCaps, done : {FALSE}, result : {0}]

\* rosters of one to MaxRoster speakers
RosterSpeakers == {Role("Affirmative", "Free"), Role("Negative", "Free"), Role("Affirmative", "Closing")}

Rosters == UNION {[1..n -> RosterSpeakers] : n \in 1..MaxRoster}

SequenceInputs ==
    [op : {"sequence"}, phase : {"Free", "Closing"}, speakers : Rosters, done : {FALSE},
     result : {<<>>}]

\* a series of at most MaxRecords calls of _record, each for any of the roles
RecordRoles == {Role("Affirmative", "Free"), Role("Negative", "Free")}

RecordInputs == [op : {"record"}, left : {MaxRecords}, done : {FALSE}, result : {0}]

\* the totals _judge hands to _determine_verdict
Totals == (-1)..MaxTotal

VerdictInputs ==
    [op : {"verdict"}, scores : [Affirmative : Totals, Negative : Totals], done : {FALSE},
     result : {0}]

\* judge replies of every shape _extract tells apart
ExtractReplies ==
    { JudgeReply(block, has, val, coercible, pat) :
        block \in {"none", "invalid", "object"},
        has \in [Affirmative : BOOLEAN, Negative : BOOLEAN],
        val \in [Affirmative : {2, 5}, Negative : {2, 5}],
        coercible \in [Affirmative : BOOLEAN, Negative : BOOLEAN],
        pat \in [Affirmative : {-1, 4}, Negative : {-1, 3}] }

ExtractInputs ==
    [op : {"extract"}, text : ExtractReplies, side : Sides, done : {FALSE}, result : {0}]

\* the bundles gather_evidence can return: for each keyword, in order, no
\* record or a record of one of the three stances
EvidenceOver(keywords) ==
    { SelectSeq([i \in 1..Len(keywords) |-> [keyword |-> keywords[i], stance |-> f[i]]],
                LAMBDA info : info.stance # "absent") :
        f \in [1..Len(keywords) -> Stances \cup {"absent"}] }

Bundles == UNION { {Bundle(keywords, evidence) : evidence \in EvidenceOver(keywords)} :
                   keywords \in KeywordLists }

FilterInputs ==
    [op : {"filter"}, bundle : Bundles, stance : Stances, done : {FALSE}, result : {NoBundle}]

\* the label sets a reply can have: the labels are found as substrings, so a
\* reply that contains SUPPORTS_TRUE contains TRUE, and likewise for FALSE
LabelSets ==
    { L \in SUBSET {"SUPPORTS_TRUE", "SUPPORTS_FALSE", "TRUE", "FALSE"} :
        /\ "SUPPORTS_TRUE" \in L => "TRUE" \in L
        /\ "SUPPORTS_FALSE" \in L => "FALSE" \in L }

\* how the evaluator's ask can end: with a reply, or with an exception
StanceInputs ==
    [op : {"stance"}, raised : BOOLEAN, text : {StanceReply(L) : L \in LabelSets},
     done : {FALSE}, result : {""}]

\* the items of an extractor reply: up to MaxItems array elements, or up to
\* MaxItems lines of each form
ItemLists == {[i \in 1..n |-> [kw |-> i]] : n \in 0..MaxItems}
LineLists ==
    UNION { {[i \in 1..n |-> Line(f[i], i)] : f \in [1..n -> {"item", "bullets", "bracket"}]} :
            n \in 0..MaxItems }

\* how the extractor's ask can end: with a reply of one of the shapes, or with
\* an exception
KeywordInputs ==
    [op : {"keywords"}, raised : BOOLEAN,
     text : {KeywordReply(s, items) : s \in {"array", "bracket_invalid", "embedded"},
                                      items \in ItemLists}
            \cup {KeywordReply(s, items) : s \in {"embedded_invalid", "lines"},
                                           items \in LineLists},
     done : {FALSE}, result : {<<>>}]

FunctionInputs ==
    BudgetInputs \cup SequenceInputs \cup RecordInputs \cup VerdictInputs \cup ExtractInputs
        \cup FilterInputs \cup StanceInputs \cup KeywordInputs

\* the configurations under which the functions are applied: FREE_ROUNDS is
\* read by _get_speakers_sequence only
FunctionConfigs ==
    [ENABLE_EVIDENCE : {ENABLE_EVIDENCE}, EVIDENCE_PHASE : {EVIDENCE_PHASE},
     FREE_ROUNDS : 0..MaxRounds,
     MEMORY_SUMMARIZE_THRESHOLD : {MEMORY_SUMMARIZE_THRESHOLD},
     MEMORY_KEEP_RECENT : {MEMORY_KEEP_RECENT},
     model_name : {"gpt-4o-mini"}]

InitFunctions ==
    /\ probe \in FunctionInputs
    /\ cfg \in FunctionConfigs
    /\ pc = IF probe.op = "verdict" THEN "verdict" ELSE "functions"
    /\ agents = [r \in AllRoles |-> MetaPrompt(r)]
    /\ domain = NoText
    /\ profiles = <<>>
    /\ shared = <<>>
    /\ transcript = <<>>
    /\ evidence_data = IF probe.op = "filter" THEN probe.bundle ELSE NoBundle
    /\ affirmative_evidence = NoBundle
    /\ negative_evidence = NoBundle
    /\ gather = NoGather
    /\ phaseIdx = 0
    /\ turn = 0
    /\ phases_entered = <<>>
    /\ judge_prompt_template = [reminder |-> "", base |-> Unfilled]
    /\ jIdx = 0
    /\ scores = IF probe.op = "verdict" THEN probe.scores ELSE BothSides(0, 0)
    /\ verdict = ""
    /\ saved = NoSave
    /\ reqlog = <<>>
    /\ call = NoCall
    /\ probe.op # "sequence" => cfg.FREE_ROUNDS = FREE_ROUNDS

\* agent._calculate_max_tokens(messages)
CalculateMaxTokens ==
    /\ pc = "functions" /\ probe.op = "budget" /\ ~probe.done
    /\ probe' = [probe EXCEPT !.done = TRUE,
                  !.result = _calculate_max_tokens(probe.tokens, probe.max_context,
                                                   probe.max_completion_tokens)]
    /\ ProbeUnchanged

\* debate._get_speakers_sequence(phase, speakers)
GetSpeakersSequence ==
    /\ pc = "functions" /\ probe.op = "sequence" /\ ~probe.done
    /\ probe' = [probe EXCEPT !.done = TRUE,
                  !.result = _get_speakers_sequence(probe.phase, probe.speakers)]
    /\ ProbeUnchanged

\* debate._record(role, prompt, reply)
RecordTurn ==
    /\ pc = "functions" /\ probe.op = "record" /\ probe.left > 0
    /\ \E role \in RecordRoles :
          _record(role, [reminder |-> "", base |-> Unfilled], SpeechOf(role))
    /\ probe' = [probe EXCEPT !.left = @ - 1]
    /\ UNCHANGED << cfg, pc, agents, domain, profiles, evidence_data, affirmative_evidence,
                    negative_evidence, gather, phaseIdx, turn, phases_entered,
                    judge_prompt_template, jIdx, scores, verdict, saved, reqlog, call >>

\* debate._gather_evidence(news_text), called where the run calls it: while
\* no evidence has been gathered
GatherEvidence ==
    /\ pc = "functions" /\ probe.op = "record"
    /\ cfg.ENABLE_EVIDENCE /\ ~Truthy(evidence_data)
    /\ \E keywords \in KeywordLists :
          _gather_evidence(keywords, <<>>)
    /\ UNCHANGED << cfg, pc, agents, domain, profiles, shared, gather, phaseIdx, turn,
                    phases_entered, judge_prompt_template, jIdx, scores, verdict, saved,
                    reqlog, call, probe >>

\* Debate._extract(text, side)
ExtractScore ==
    /\ pc = "functions" /\ probe.op = "extract" /\ ~probe.done
    /\ probe' = [probe EXCEPT !.done = TRUE, !.result = _extract(probe.text, probe.side)]
    /\ ProbeUnchanged

\* evidence_system.filter_evidence_by_stance(self.evidence_data, stance)
FilterEvidence ==
    /\ pc = "functions" /\ probe.op = "filter" /\ ~probe.done
    /\ probe' = [probe EXCEPT !.done = TRUE,
                  !.result = filter_evidence_by_stance(evidence_data, probe.stance)]
    /\ ProbeUnchanged

\* evidence_system.evaluate_evidence_stance(news_text, evidence_info)
EvaluateStance ==
    /\ pc = "functions" /\ probe.op = "stance" /\ ~probe.done
    /\ probe' = [probe EXCEPT !.done = TRUE,
                  !.result = evaluate_evidence_stance([raised |-> probe.raised, text |-> probe.text])]
    /\ ProbeUnchanged

\* evidence_system.extract_keywords(news_text)
ParseKeywords ==
    /\ pc = "functions" /\ probe.op = "keywords" /\ ~probe.done
    /\ probe' = [probe EXCEPT !.done = TRUE,
                  !.result = extract_keywords([raised |-> probe.raised, text |-> probe.text])]
    /\ ProbeUnchanged

NextFunctions ==
    \/ EvaluateStance
    \/ ParseKeywords
    \/ FilterEvidence
    \/ CalculateMaxTokens
    \/ GetSpeakersSequence
    \/ RecordTurn
    \/ GatherEvidence
    \/ DetermineVerdict
    \/ ExtractScore

SpecFunctions == InitFunctions /\ [][NextFunctions]_vars

(***************************************************************************)
(* Properties                                                              *)
(***************************************************************************)
IsDebater(r) == r.side \in Sides

\* the speakers of the turns recorded in Shared Context, in order
Recorded(test(_)) ==
    LET said == SelectSeq(shared, LAMBDA m : m.role = "assistant" /\ test(m.content.speaker))
    IN  [i \in 1..Len(said) |-> said[i].content.speaker]

DebateTurns == Recorded(IsDebater)

PhaseIndex(name) == CHOOSE i \in 1..Len(PHASES) : PHASES[i].phase = name

TurnsOf(name) == SelectSeq(DebateTurns, LAMBDA r : r.duty = name)

PastPhases == pc \in {"calculate_scores", "judge", "verdict", "summary", "done"}

AllPhases == [i \in 1..Len(PHASES) |-> PHASES[i].phase]

\* the sum of the Opening, Rebuttal and Closing roster sizes
RosterTurns ==
    Len(PHASES[PhaseIndex("Opening")].speakers) + Len(PHASES[PhaseIndex("Rebuttal")].speakers)
        + Len(PHASES[PhaseIndex("Closing")].speakers)

\* C1: the debate turns are recorded phase by phase in the order Opening,
\* Rebuttal, Free, Closing; in Opening, Rebuttal and Closing every roster
\* speaker takes exactly one turn, in roster order; Free has its
\* 2 x FREE_ROUNDS turns; no phase is skipped, repeated or re-entered.
C1_PhaseOrder ==
    /\ \A i, j \in 1..Len(DebateTurns) :
          i < j => PhaseIndex(DebateTurns[i].duty) <= PhaseIndex(DebateTurns[j].duty)
    /\ \A p \in 1..Len(PHASES) :
          LET name == PHASES[p].phase
              later == PastPhases
                       \/ \E i \in 1..Len(DebateTurns) : PhaseIndex(DebateTurns[i].duty) > p
          IN  /\ name # "Free" => IsPrefix(TurnsOf(name), PHASES[p].speakers)
              /\ name = "Free" => Len(TurnsOf(name)) <= 2 * cfg.FREE_ROUNDS
              /\ later /\ name # "Free" => TurnsOf(name) = PHASES[p].speakers
              /\ later /\ name = "Free" => Len(TurnsOf(name)) = 2 * cfg.FREE_ROUNDS
    /\ IsPrefix(phases_entered, AllPhases)
    /\ PastPhases => phases_entered = AllPhases

C1_Witness ==
    /\ pc = "done"
    /\ cfg.FREE_ROUNDS >= 1
    /\ Len(DebateTurns) = RosterTurns + 2 * cfg.FREE_ROUNDS

JudgeAsks == SelectSeq(reqlog, LAMBDA r : r.side = "Judge")

JudgeOrder ==
    [i \in 1..Len(SCORING_JUDGE_ROLES) |-> Role("Judge", SCORING_JUDGE_ROLES[i])]
    \o <<Role("Judge", SUMMARY_JUDGE_CONFIG)>>

\* the replies of the scoring judges recorded in Shared Context
ScoringReplies ==
    SelectSeq(shared, LAMBDA m : m.role = "assistant" /\ m.content.speaker.side = "Judge"
                                  /\ m.content.speaker.duty # SUMMARY_JUDGE_CONFIG)

RECURSIVE TallyOf(_, _)
TallyOf(replies, side) ==
    IF replies = <<>> THEN 0
    ELSE _extract(Head(replies).content.body, side) + TallyOf(Tail(replies), side)

\* the prompts given to the summary judge, as recorded
SummaryPrompts ==
    SelectSeq(shared, LAMBDA m : m.role = "user" /\ m.content.speaker = Role("Judge", SUMMARY_JUDGE_CONFIG))

LastClosingSpeaker == PHASES[Len(PHASES)].speakers[Len(PHASES[Len(PHASES)].speakers)]

\* C2: no judge is asked before the last Closing turn is recorded; the
\* scoring judges are asked once each in the order of SCORING_JUDGE_ROLES,
\* then the summary judge once; the verdict exists only after the last
\* scoring judge and follows from the tally of their replies; the summary
\* judge is asked only once the verdict exists; what is saved are the scores
\* and the verdict that were put into the summary judge's prompt.
C2_JudgeOrder ==
    /\ IsPrefix(JudgeAsks, JudgeOrder)
    /\ pc = "done" => JudgeAsks = JudgeOrder
    /\ JudgeAsks # <<>> =>
          /\ Len(DebateTurns) = RosterTurns + 2 * cfg.FREE_ROUNDS
          /\ DebateTurns[Len(DebateTurns)] = LastClosingSpeaker
    /\ verdict # "" =>
          /\ Len(ScoringReplies) = Len(SCORING_JUDGE_ROLES)
          /\ scores = BothSides(TallyOf(ScoringReplies, "Affirmative"),
                                TallyOf(ScoringReplies, "Negative"))
          /\ verdict = "REAL" <=> scores.Affirmative > scores.Negative
          /\ verdict = "FAKE" <=> scores.Negative > scores.Affirmative
          /\ verdict = "UNCERTAIN" <=> scores.Affirmative = scores.Negative
    /\ Len(JudgeAsks) = Len(JudgeOrder) => verdict # ""
    /\ saved.written =>
          /\ pc = "done"
          /\ Len(SummaryPrompts) = 1
          /\ saved.scores = SummaryPrompts[1].content.body.base.scores
          /\ saved.verdict = SummaryPrompts[1].content.body.base.verdict
          /\ saved.scores = scores
          /\ saved.verdict = verdict

C2_Witness ==
    /\ pc = "done"
    /\ saved.written
    /\ saved.verdict = "FAKE"
    /\ JudgeAsks = JudgeOrder

Verdicts == {"REAL", "FAKE", "UNCERTAIN"}

\* the run has printed (and saved) its verdict
VerdictProduced == pc = "done"

FatalKinds == RetriedErrors \cup {"ValueError"}

\* C3 as stated: a completion request that ends in a malformed response or in
\* exhausted retries terminates the run where it was issued, at every call
\* site, and no verdict is produced.
C3_AbortsAtEverySite ==
    (call.raised /\ call.error.type \in FatalKinds) => pc = "aborted"

UncaughtSites == {"domain", "profile", "turn", "judge", "summary"}
RecoveredSites == {"keywords", "stance"}

\* C3 amended: a fatal completion failure at domain detection, profile
\* generation, a debate turn, a scoring judge or the summary judge aborts the
\* run there and no verdict is produced; at keyword extraction and stance
\* classification it is recovered (empty keyword list, NEUTRAL) and the run
\* goes on.
C3_AbortsWhereUncaught ==
    /\ (call.raised /\ call.site \in UncaughtSites) =>
          pc = "aborted" /\ ~VerdictProduced /\ ~saved.written
    /\ (call.raised /\ call.site \in RecoveredSites) => pc # "aborted"
    /\ pc = "aborted" => call.raised /\ call.site \in UncaughtSites
    /\ call.site \in UncaughtSites \cup RecoveredSites \cup {"none"}

C3_Witness ==
    /\ pc = "aborted"
    /\ call.site = "judge"
    /\ call.raised
    /\ call.error.type = "ValueError"
    /\ Len(ScoringReplies) = 2

\* the records of the bundle that has been gathered
GatheredStances == {evidence_data.evidence[i].stance : i \in 1..Len(evidence_data.evidence)}

\* C4: a failure of keyword extraction, of a lookup or of stance
\* classification never aborts the run: no abort happens at these sites, a
\* failed extraction leaves an empty keyword list and a failed classification
\* a NEUTRAL record, the gathering loop stands at a keyword still to be
\* processed until it has gone through all of them, the run has a next step
\* to take after such a failure, and at its end all four phases were entered, every scoring
\* judge has replied and the verdict is REAL, FAKE or UNCERTAIN.
C4_EvidenceFailuresDegrade ==
    /\ pc = "aborted" => call.site \notin RecoveredSites
    /\ (call.raised /\ call.site = "keywords") =>
          evidence_data = Bundle(<<>>, <<>>) /\ pc \notin {"gather_loop", "aborted"}
    /\ (call.raised /\ call.site = "stance") =>
          IF pc = "gather_loop"
          THEN gather.evidence # <<>>
               /\ gather.evidence[Len(gather.evidence)].stance = "NEUTRAL"
          ELSE "NEUTRAL" \in GatheredStances
    /\ pc = "gather_loop" =>
          /\ gather.i \in 1..Len(gather.keywords)
          /\ Len(gather.evidence) < gather.i
          /\ ENABLED GatherKeyword
    /\ Truthy(evidence_data) =>
          /\ gather.keywords = evidence_data.keywords
          /\ gather.i = Len(evidence_data.keywords) + 1
          /\ pc # "gather_loop"
    /\ (call.raised /\ call.site \in RecoveredSites) => ENABLED Next
    /\ pc = "done" =>
          /\ phases_entered = AllPhases
          /\ Len(ScoringReplies) = Len(SCORING_JUDGE_ROLES)
          /\ verdict \in Verdicts

\* a classification has failed on the first keyword and a later keyword is
\* being processed
C4_Witness ==
    /\ pc = "gather_loop"
    /\ gather.i = 2
    /\ call.site = "stance"
    /\ call.raised
    /\ gather.evidence # <<>>
    /\ gather.evidence[1].stance = "NEUTRAL"

Supported == cfg.model_name \in SUPPORT_MODELS

\* C5: when the service fails transiently on the first N attempts, N < 20,
\* and then succeeds, query returns that text after N + 1 attempts (N
\* retries); when 20 attempts in a row fail transiently, query raises that
\* error after its 20th attempt and dispatches no 21st request; the delay is
\* applied once before every attempt.
C5_RetryPolicy ==
    (probe.done /\ Supported) =>
        LET b == probe.beh
            r == probe.result
        IN  /\ (b.fails < max_tries /\ b.final = "ok") =>
                  ~r.raised /\ r.text = b.text /\ r.attempts = b.fails + 1
            /\ b.fails >= max_tries =>
                  /\ r.raised /\ r.error.type = b.kind
                  /\ r.attempts = max_tries /\ r.dispatched = max_tries
            /\ r.attempts <= max_tries
            /\ r.sleeps = r.attempts
            /\ r.dispatched = r.attempts

C5_Witness ==
    /\ probe.done /\ Supported /\ probe.op = "query"
    /\ probe.beh.fails = max_tries - 1 /\ probe.beh.final = "ok"
    /\ ~probe.result.raised
    /\ probe.result.attempts = max_tries
    /\ probe.result.sleeps = max_tries

\* C6 as stated: with a model_name that is not in SUPPORT_MODELS every ask
\* (on a history of any length) and every query fails before any request is
\* dispatched to the completion service, and is not retried.
C6_UnsupportedModelNoDispatch ==
    (probe.done /\ ~Supported) =>
        /\ probe.result.raised
        /\ probe.result.attempts = 1
        /\ probe.result.dispatched = 0
        /\ ~probe.result.summarized

\* the error query raises for a model that is not supported
UnsupportedModelError ==
    query(Agent("text-davinci-003", Role("", ""), 10, <<>>), <<>>,
          Behaviour(0, "RateLimitError", "ok", ProbeText)).error

PromptOf(m) == m.content.body.base

\* TRUE when the prompt carries an evidence block
HasEvidenceBlock(prompt) == "evidence" \in DOMAIN prompt /\ prompt.evidence # Unfilled

\* the titles of the evidence records a list of messages contains verbatim
TitlesIn(messages) ==
    UNION { IF messages[i].role = "user" /\ HasEvidenceBlock(PromptOf(messages[i]))
            THEN {PromptOf(messages[i]).evidence.items[k].title :
                    k \in 1..Len(PromptOf(messages[i]).evidence.items)}
            ELSE {} : i \in 1..Len(messages) }

\* the stance of the gathered record with the given title
StanceOf(title) ==
    (CHOOSE info \in Range(evidence_data.evidence) : info.keyword = title).stance

OppositeStance(side) == IF side = "Affirmative" THEN "SUPPORTS_FALSE" ELSE "SUPPORTS_TRUE"
OwnStance(side) == IF side = "Affirmative" THEN "SUPPORTS_TRUE" ELSE "SUPPORTS_FALSE"

\* C8 as stated: no completion request issued for a debater (system prompt,
\* context taken from Shared Context, own prompt) contains an evidence record
\* whose stance is opposite to the debater's side.
C8_NoOpposingEvidenceInRequest ==
    (call.site = "turn" /\ IsDebater(call.agent)) =>
        \A title \in TitlesIn(call.messages) : StanceOf(title) # OppositeStance(call.agent.side)

\* the prompts of the debate turns recorded in Shared Context
TurnPrompts == SelectSeq(shared, LAMBDA m : m.role = "user" /\ IsDebater(m.content.speaker))

\* C9 as stated: whatever phase EVIDENCE_PHASE names, a debater's prompt
\* carries an evidence block only in a turn of that phase, and only when a
\* gathered record has the side's stance; the turns of every other phase use
\* the phase's own template.
C9_EvidenceOnlyInEvidencePhase ==
    \A i \in 1..Len(TurnPrompts) :
        LET speaker == TurnPrompts[i].content.speaker
            prompt == PromptOf(TurnPrompts[i])
        IN  /\ HasEvidenceBlock(prompt) =>
                  /\ speaker.duty = cfg.EVIDENCE_PHASE
                  /\ OwnStance(speaker.side) \in GatheredStances
            /\ speaker.duty # cfg.EVIDENCE_PHASE =>
                  prompt.tpl = PHASES[PhaseIndex(speaker.duty)].tpl

\* C10: the prompt built for a debater's Free-phase turn carries an evidence
\* block exactly when evidence has been gathered by then and some gathered
\* record has the stance of the debater's own side; NEUTRAL records do not
\* count.
C10_FreeEvidenceIffFavorable ==
    (call.site = "turn" /\ call.agent.duty = "Free") =>
        LET prompt == PromptOf(call.messages[Len(call.messages)])
        IN  HasEvidenceBlock(prompt)
                <=> (Truthy(evidence_data) /\ OwnStance(call.agent.side) \in GatheredStances)

\* a Free-phase prompt built when every gathered record is NEUTRAL
C10_Witness ==
    /\ call.site = "turn" /\ call.agent.duty = "Free"
    /\ Truthy(evidence_data)
    /\ GatheredStances = {"NEUTRAL"}
    /\ Len(evidence_data.evidence) = 2
    /\ ~HasEvidenceBlock(PromptOf(call.messages[Len(call.messages)]))

\* the keyword-extraction requests of the run: gather_evidence issues exactly
\* one, first thing, each time it is called
GatherAsks == SelectSeq(reqlog, LAMBDA r : r = KeywordExtractor)

Gathering == pc \in {"extract_keywords", "gather_loop"}

\* C11: evidence gathering is performed at most once in a run and exactly
\* once as soon as the phase named by EVIDENCE_PHASE has been entered; it
\* runs before any Opening turn (and before the phase loop) when
\* EVIDENCE_PHASE is "Opening", otherwise on entry into that phase before the
\* phase's first turn; a gathering that found no keywords or no records is
\* not repeated; with evidence disabled there is none.
C11_GatheredOnce ==
    /\ Len(GatherAsks) <= 1
    /\ ~cfg.ENABLE_EVIDENCE =>
          /\ GatherAsks = <<>>
          /\ ~Gathering
          /\ ~Truthy(evidence_data)
    /\ (cfg.ENABLE_EVIDENCE /\ cfg.EVIDENCE_PHASE \in Range(phases_entered) /\ pc # "extract_keywords") =>
          Len(GatherAsks) = 1
    /\ Gathering =>
          /\ cfg.ENABLE_EVIDENCE
          /\ TurnsOf(cfg.EVIDENCE_PHASE) = <<>>
          /\ IF cfg.EVIDENCE_PHASE = "Opening"
             THEN phases_entered = <<>> /\ shared = <<>>
             ELSE phases_entered # <<>> /\ phases_entered[Len(phases_entered)] = cfg.EVIDENCE_PHASE
    /\ (GatherAsks # <<>> /\ ~Gathering) => Truthy(evidence_data)
    /\ Truthy(evidence_data) => Len(GatherAsks) = 1
    /\ Len(SelectSeq(transcript, LAMBDA e : e.speaker = Evidence_System)) <= 1

\* a completed run with EVIDENCE_PHASE = "Opening" whose only gathering found
\* no keywords: the Opening phase was entered afterwards and did not gather
C11_Witness ==
    /\ pc = "done"
    /\ cfg.ENABLE_EVIDENCE /\ cfg.EVIDENCE_PHASE = "Opening"
    /\ Len(GatherAsks) = 1
    /\ evidence_data.keywords = <<>>
    /\ evidence_data.evidence = <<>>

RECURSIVE RepliesIn(_)
\* the number of replies merged into the Transcript entries of the speakers
RepliesIn(tr) ==
    IF tr = <<>> THEN 0
    ELSE (IF Head(tr).speaker = Evidence_System THEN 0 ELSE Len(Head(tr).text)) + RepliesIn(Tail(tr))

\* the turns completed so far (every call of _record)
CompletedTurns == RepliesIn(transcript)

TurnSites == {"turn", "judge", "summary"}

\* C12: Shared Context only grows, and only by whole turns: a step either
\* leaves it as it is or appends the user entry "{speaker}: {prompt}" (the
\* prompt that was sent) followed by the assistant entry "{speaker}: {reply}"
\* of the turn just completed, leaving every earlier entry in place, also
\* when the request was built from the compacted context; a completed turn
\* always appends; after k completed turns the length is 2k and user and
\* assistant entries alternate.
C12_SharedAppendOnly ==
    /\ [](/\ Len(shared) = 2 * CompletedTurns
          /\ \A i \in 1..Len(shared) :
                shared[i].role = (IF i % 2 = 1 THEN "user" ELSE "assistant"))
    /\ [][ /\ IsPrefix(shared, shared')
           /\ shared' # shared =>
                 LET n == Len(shared)
                 IN  /\ Len(shared') = n + 2
                     /\ call'.site \in TurnSites /\ ~call'.raised
                     /\ shared'[n + 1].role = "user"
                     /\ shared'[n + 2].role = "assistant"
                     /\ shared'[n + 1].content.speaker = call'.agent
                     /\ shared'[n + 2].content.speaker = call'.agent
                     /\ shared'[n + 1] = call'.messages[Len(call'.messages)]
           /\ (reqlog' # reqlog /\ call'.site \in TurnSites /\ ~call'.raised) => shared' # shared
         ]_vars

\* a scoring judge's turn was recorded after its request was built from the
\* compacted context: the log holds every entry, the request only the recent
C12_Witness ==
    /\ call.site = "judge" /\ call.summarized /\ ~call.raised
    /\ Len(shared) > cfg.MEMORY_SUMMARIZE_THRESHOLD + 2
    /\ Len(call.messages) = cfg.MEMORY_KEEP_RECENT + 3
    /\ shared[Len(shared) - 1] = call.messages[Len(call.messages)]

\* the context part of the request an ask built: the messages between the
\* system prompt and the agent's own prompt
ContextOf(messages) == SubSeq(messages, 2, Len(messages) - 1)

AskedOn(n) == probe.done /\ probe.op = "ask" /\ probe.n = n

\* C13: on a history no longer than MEMORY_SUMMARIZE_THRESHOLD the context
\* is the history itself, entry for entry, and no summarization request is
\* issued.
C13_ShortHistoryUnchanged ==
    \A n \in 0..MaxHist :
        (AskedOn(n) /\ n <= cfg.MEMORY_SUMMARIZE_THRESHOLD) =>
            /\ ~probe.result.summarized
            /\ ContextOf(probe.result.messages) = History(n)
            /\ probe.result.sum_requests = 0
            /\ _prepare_memory_context(History(n), cfg, probe.sumResp).ctx = History(n)

\* a history exactly as long as the threshold
C13_Witness ==
    /\ AskedOn(MaxThreshold)
    /\ cfg.MEMORY_SUMMARIZE_THRESHOLD = MaxThreshold
    /\ ~probe.result.summarized
    /\ Len(probe.result.messages) = MaxThreshold + 2

\* C14 as stated: on a history longer than the threshold, for every pair of
\* non-negative MEMORY_SUMMARIZE_THRESHOLD and MEMORY_KEEP_RECENT, the context
\* has exactly KEEP_RECENT + 1 entries: a system entry "[Debate Summary]: ..."
\* that summarizes exactly the entries before the last KEEP_RECENT, then the
\* last KEEP_RECENT entries in order.
C14_CompactionSize ==
    \A n \in 0..MaxHist :
        (AskedOn(n) /\ n > cfg.MEMORY_SUMMARIZE_THRESHOLD) =>
            LET ctx  == ContextOf(probe.result.messages)
                keep == cfg.MEMORY_KEEP_RECENT
            IN  /\ probe.result.summarized
                /\ Len(ctx) = keep + 1
                /\ ctx[1].role = "system"
                /\ ctx[1].content.kind = "debate_summary"
                /\ ctx[1].content.summary \in
                      { [kind |-> "summary", of |-> SubSeq(History(n), 1, n - keep)],
                        SummaryUnavailable }
                /\ SubSeq(ctx, 2, Len(ctx)) = SubSeq(History(n), n - keep + 1, n)

\* C15: when the summarization request of an ask fails (transient error,
\* malformed response, any other exception) exactly one summarization request
\* was made, the note in the context carries "[Summary unavailable]", and
\* the ask goes on to query with that context: what the ask returns or raises
\* is what its own query returns or raises.
C15_SummarizationBestEffort ==
    (probe.done /\ probe.op = "ask" /\ probe.n > cfg.MEMORY_SUMMARIZE_THRESHOLD
        /\ probe.sumResp # "ok") =>
        LET r == probe.result
        IN  /\ r.summarized
            /\ r.sum_requests = 1
            /\ r.attempts >= 1
            /\ Supported => r.dispatched >= 1
            /\ ContextOf(r.messages)[1].content = [kind |-> "debate_summary", summary |-> SummaryUnavailable]
            /\ LET q == query(ProbeAgent, r.messages, probe.beh)
               IN  r.raised = q.raised /\ r.error = q.error /\ r.text = q.text

\* the summarization request met a rate limit, the ask returned the
\* completion of its own request
C15_Witness ==
    /\ probe.done /\ probe.op = "ask" /\ Supported
    /\ probe.n > cfg.MEMORY_SUMMARIZE_THRESHOLD
    /\ probe.sumResp = "RateLimitError"
    /\ probe.result.summarized
    /\ ~probe.result.raised
    /\ probe.result.text = ProbeText
    /\ probe.result.dispatched = 1

Budgeted == probe.op = "budget" /\ probe.done

\* C16 as stated: the budget is within [64, MAX_COMPLETION_TOKENS] for every
\* message list, every context size and every positive MAX_COMPLETION_TOKENS.
C16_BudgetWithinBounds ==
    Budgeted => (64 <= probe.result /\ probe.result <= probe.max_completion_tokens)

\* C16 amended: for every MAX_COMPLETION_TOKENS of at least 64 the budget is
\* within [64, MAX_COMPLETION_TOKENS], also when the used tokens reach or
\* exceed the maximum context; under a smaller MAX_COMPLETION_TOKENS the
\* budget is 64, above the configured maximum.
C16_BudgetWithinBoundsFrom64 ==
    Budgeted =>
        /\ probe.max_completion_tokens >= 64 =>
              (64 <= probe.result /\ probe.result <= probe.max_completion_tokens)
        /\ probe.max_completion_tokens < 64 => probe.result = 64
        /\ probe.result <= Max(64, probe.max_context - SumOf(probe.tokens))

\* the used tokens exceed the maximum context
C16_Witness ==
    /\ Budgeted
    /\ SumOf(probe.tokens) > probe.max_context
    /\ probe.max_completion_tokens = MAX_COMPLETION_TOKENS
    /\ probe.result = 64

FreeSequenced == probe.op = "sequence" /\ probe.done /\ probe.phase = "Free"

\* C17: for every FREE_ROUNDS >= 0 and every roster of at least one speaker
\* the Free-phase sequence has exactly 2 x FREE_ROUNDS turns; it starts with
\* the roster in its order and repeats with the roster's period; with a
\* roster of one speaker of each side consecutive turns change sides and the
\* first turn is the roster's first entry.
C17_FreeSequence ==
    FreeSequenced =>
        LET seq    == probe.result
            roster == probe.speakers
        IN  /\ Len(seq) = 2 * cfg.FREE_ROUNDS
            /\ \A i \in 1..Len(seq) :
                  IF i <= Len(roster) THEN seq[i] = roster[i] ELSE seq[i] = seq[i - Len(roster)]
            /\ (Len(roster) = 2 /\ roster[1].side # roster[2].side) =>
                  /\ seq # <<>> => seq[1] = roster[1]
                  /\ \A i \in 1..(Len(seq) - 1) : seq[i].side # seq[i + 1].side

\* three rounds over the two-speaker roster of the Free phase
C17_Witness ==
    /\ FreeSequenced
    /\ cfg.FREE_ROUNDS = MaxRounds
    /\ probe.speakers = <<Role("Affirmative", "Free"), Role("Negative", "Free")>>
    /\ Len(probe.result) = 2 * MaxRounds
    /\ probe.result[2 * MaxRounds] = Role("Negative", "Free")

RECURSIVE RepliesOf(_)
\* the replies of the speakers in the order the Transcript holds them
RepliesOf(tr) ==
    IF tr = <<>> THEN <<>>
    ELSE (IF Head(tr).speaker = Evidence_System THEN <<>>
          ELSE [i \in 1..Len(Head(tr).text) |-> Said(Head(tr).speaker, Head(tr).text[i])])
         \o RepliesOf(Tail(tr))

\* the replies in the order they were given
RepliesGiven ==
    LET said == SelectSeq(shared, LAMBDA m : m.role = "assistant")
    IN  [i \in 1..Len(said) |-> said[i].content]

\* C18: a turn by the speaker of the last Transcript entry extends that
\* entry by its reply and adds no entry; a turn by another speaker appends an
\* entry holding its reply; no two adjacent Transcript entries have the same
\* speaker; the replies joined in the entries, read in order, are the replies
\* in the order they were given.
C18_TranscriptMerge ==
    /\ [](/\ \A i \in 1..(Len(transcript) - 1) : transcript[i].speaker # transcript[i + 1].speaker
          /\ RepliesOf(transcript) = RepliesGiven)
    /\ [][ shared' # shared =>
              LET n     == Len(transcript)
                  reply == shared'[Len(shared')].content
              IN  IF n > 0 /\ transcript[n].speaker = reply.speaker
                  THEN /\ Len(transcript') = n
                       /\ SubSeq(transcript', 1, n - 1) = SubSeq(transcript, 1, n - 1)
                       /\ transcript'[n].speaker = reply.speaker
                       /\ transcript'[n].text = transcript[n].text \o <<reply.body>>
                  ELSE /\ transcript' = Append(transcript, [speaker |-> reply.speaker,
                                                            text |-> <<reply.body>>])
         ]_vars

\* three turns in a row by one speaker, after another speaker's turn, joined
\* in one entry
C18_Witness ==
    /\ probe.op = "record"
    /\ Len(shared) = 8
    /\ Len(transcript) = 2
    /\ transcript[1].speaker # transcript[2].speaker
    /\ Len(transcript[2].text) = 3

\* C19: once _judge has determined the verdict it is REAL exactly when the
\* Affirmative total is greater, FAKE exactly when the Negative total is
\* greater and UNCERTAIN exactly when the totals are equal, for all integer
\* totals; a verdict, once produced, is never replaced, and the summary judge
\* is reached only with a verdict.
C19_VerdictRule ==
    /\ [](verdict # "" =>
            /\ verdict \in Verdicts
            /\ verdict = "REAL" <=> scores.Affirmative > scores.Negative
            /\ verdict = "FAKE" <=> scores.Negative > scores.Affirmative
            /\ verdict = "UNCERTAIN" <=> scores.Affirmative = scores.Negative)
    /\ [](pc \in {"summary", "done"} => verdict # "")
    /\ [][verdict # "" => (verdict' = verdict /\ scores' = scores)]_vars

\* an exact tie of two negative totals
C19_Witness ==
    /\ probe.op = "verdict"
    /\ pc = "summary"
    /\ scores = BothSides(-1, -1)
    /\ verdict = "UNCERTAIN"

Extracted == probe.op = "extract" /\ probe.done

\* the first stage of the extraction succeeds: the first {...} block parses
\* as an object that holds an integer-coercible value for the side
ObjectStageSucceeds(text, side) == text.block = "object" /\ text.has[side] /\ text.coercible[side]

\* C20 as stated: when the object stage succeeds its value is the result; on
\* any failure of it (no block, parse error, side missing, value not
\* coercible) the result is the digit the pattern finds for the side, and 0
\* only when the pattern finds none.
C20_ExtractFallsBack ==
    Extracted =>
        LET text == probe.text
            side == probe.side
        IN  /\ ObjectStageSucceeds(text, side) => probe.result = text.val[side]
            /\ (~ObjectStageSucceeds(text, side) /\ text.pat[side] >= 0) =>
                  probe.result = text.pat[side]
            /\ (~ObjectStageSucceeds(text, side) /\ text.pat[side] < 0) => probe.result = 0

\* C21 as stated: the two values extracted from every scoring judge's reply
\* sum to exactly 7, so after k scoring judges the tally satisfies
\* Affirmative + Negative = 7k.
C21_TallySumsToSeven ==
    /\ \A i \in 1..Len(ScoringReplies) :
          _extract(ScoringReplies[i].content.body, "Affirmative")
              + _extract(ScoringReplies[i].content.body, "Negative") = 7
    /\ pc \in {"judge", "verdict", "summary", "done"} =>
          scores.Affirmative + scores.Negative = 7 * Len(ScoringReplies)

Filtered == probe.op = "filter" /\ probe.done

\* C22: the filtered bundle holds exactly the records of the input whose
\* stance is the desired one or NEUTRAL, in the input's order and once each;
\* its keyword list is the input's; the input bundle is as it was; filtering
\* the result again by the same stance changes nothing.
C22_FilterByStance ==
    Filtered =>
        LET in   == probe.bundle
            out  == probe.result
            S    == probe.stance
            kept == {i \in 1..Len(in.evidence) : in.evidence[i].stance \in {S, "NEUTRAL"}}
        IN  /\ out.keywords = in.keywords
            /\ \A i \in 1..Len(in.evidence) : (in.evidence[i] \in Range(out.evidence)) <=> i \in kept
            /\ Range(out.evidence) \subseteq Range(in.evidence)
            /\ Len(out.evidence) = Cardinality(kept)
            /\ \A i, j \in 1..Len(out.evidence) :
                  i < j => out.evidence[i].keyword.kw < out.evidence[j].keyword.kw
            /\ evidence_data = in
            /\ filter_evidence_by_stance(out, S) = out

\* a SUPPORTS_FALSE record dropped and a NEUTRAL record kept
C22_Witness ==
    /\ Filtered
    /\ probe.stance = "SUPPORTS_TRUE"
    /\ {probe.bundle.evidence[i].stance : i \in 1..Len(probe.bundle.evidence)}
          = {"SUPPORTS_FALSE", "NEUTRAL"}
    /\ Len(probe.result.evidence) = 1
    /\ probe.result.evidence[1].stance = "NEUTRAL"

RECURSIVE LastBySide(_, _, _)
\* the reply of the most recent assistant entry among the first i entries of
\* `mem` whose speaker is of `side`; the empty string when there is none
LastBySide(mem, side, i) ==
    IF i = 0 THEN NoText
    ELSE IF mem[i].role = "assistant" /\ mem[i].content.speaker.side = side
         THEN mem[i].content.body
    ELSE LastBySide(mem, side, i - 1)

OtherSide(side) == IF side = "Affirmative" THEN "Negative" ELSE "Affirmative"

\* C23 as stated: in every debate turn whose prompt has an opp value, that
\* value is the reply of the most recent assistant entry of Shared Context
\* uttered by the opponent side before the turn; it is empty only when the
\* opponent side has not spoken yet.
C23_OppIsLastOfOpponentSide ==
    \A i \in 1..Len(shared) :
        (shared[i].role = "user" /\ IsDebater(shared[i].content.speaker)
            /\ PromptOf(shared[i]).opp # Unfilled) =>
            PromptOf(shared[i]).opp = LastBySide(shared, OtherSide(shared[i].content.speaker.side), i - 1)

Classified == probe.op = "stance" /\ probe.done

\* C24 as stated: a reply containing SUPPORTS_TRUE yields SUPPORTS_TRUE; one
\* containing SUPPORTS_FALSE and not SUPPORTS_TRUE yields SUPPORTS_FALSE, also
\* when the bare word TRUE occurs in it; a reply with no compound label is
\* classified by the bare word TRUE or FALSE it contains; a reply with none
\* of the labels, and a failed request, yield NEUTRAL; the result is one of
\* the three stances.
C24_CompoundLabelsFirst ==
    Classified =>
        LET L == probe.text.labels
            compound == L \cap {"SUPPORTS_TRUE", "SUPPORTS_FALSE"}
        IN  /\ probe.result \in Stances
            /\ probe.raised => probe.result = "NEUTRAL"
            /\ ~probe.raised =>
                  /\ "SUPPORTS_TRUE" \in L => probe.result = "SUPPORTS_TRUE"
                  /\ ("SUPPORTS_FALSE" \in L /\ "SUPPORTS_TRUE" \notin L) =>
                        probe.result = "SUPPORTS_FALSE"
                  /\ (compound = {} /\ L = {"TRUE"}) => probe.result = "SUPPORTS_TRUE"
                  /\ (compound = {} /\ L = {"FALSE"}) => probe.result = "SUPPORTS_FALSE"
                  /\ L = {} => probe.result = "NEUTRAL"

KeywordsParsed == probe.op = "keywords" /\ probe.done

\* C25 as stated: extract_keywords returns at most 5 entries and never raises;
\* a strict JSON array yields its elements; a reply that is not JSON as a
\* whole but has an embedded array yields that array's elements, whatever
\* character it begins with; a reply with no array yields at most 4
\* line-split items; the result is empty only when all of these yield nothing.
C25_KeywordStages ==
    KeywordsParsed =>
        LET r == probe.text
            kept == SelectSeq(r.items, KeptLine)
        IN  /\ Len(probe.result) <= 5
            /\ probe.raised => probe.result = <<>>
            /\ ~probe.raised =>
                  /\ r.shape = "array" => probe.result = PySliceFirst(r.items, 5)
                  /\ r.shape \in {"bracket_invalid", "embedded"} =>
                        probe.result = PySliceFirst(r.items, 5)
                  /\ r.shape = "lines" =>
                        /\ Len(probe.result) <= 4
                        /\ probe.result = PySliceFirst([i \in 1..Len(kept) |-> [kw |-> kept[i].kw]], 4)
                  /\ (probe.result = <<>> /\ r.shape # "embedded_invalid") =>
                        (r.items = <<>> \/ (r.shape = "lines" /\ kept = <<>>))

InSetup == pc \in {"detect_domain", "profiles"}

SetupDone == phaseIdx >= 1

\* the debaters, in the order the agents were built
DebaterOrder == SelectSeq(AgentOrder, LAMBDA r : r.side \in Sides)

\* the system prompt _setup_domain_context leaves to a role
PromptAfterSetup(a) ==
    IF StartsWith(a, "Judge") THEN MetaPrompt(a)
    ELSE MetaPrompt(a) \o << [kind |-> "domain", text |-> domain],
                             [kind |-> "profile", text |-> [kind |-> "profile", of |-> a]] >>

\* C26: setup runs once, before any phase; its asks are one by the domain
\* detector, at temperature 0, then one by each non-judge role in turn; when
\* it ends every non-judge system prompt has gained the domain and the role's
\* profile, every judge's system prompt is as built, and Shared Context and
\* Transcript are empty.
C26_SetupOnce ==
    /\ [](InSetup => /\ phases_entered = <<>> /\ phaseIdx = 0
                     /\ shared = <<>> /\ transcript = <<>>
                     /\ \A a \in AllRoles : agents[a] = MetaPrompt(a))
    /\ [](call.site = "domain" => call.temperature = 0 /\ call.agent = DomainDetector)
    /\ [](SetupDone =>
            /\ SubSeq(reqlog, 1, 1 + Len(DebaterOrder)) = <<DomainDetector>> \o DebaterOrder
            /\ \A i \in 2 + Len(DebaterOrder)..Len(reqlog) : reqlog[i] # DomainDetector
            /\ DOMAIN profiles = 1..Len(DebaterOrder)
            /\ \A a \in AllRoles : agents[a] = PromptAfterSetup(a))
    /\ [][ /\ ~InSetup => ~InSetup'
           /\ (InSetup /\ SetupDone') => shared' = <<>> /\ transcript' = <<>>
           /\ SetupDone => agents' = agents /\ domain' = domain /\ profiles' = profiles ]_vars

C26_Witness ==
    /\ SetupDone /\ pc = "phase" /\ shared = <<>>
    /\ Len(reqlog) = 1 + Len(DebaterOrder)
    /\ agents[Role("Negative", "Closing")] = PromptAfterSetup(Role("Negative", "Closing"))

\* an ask was made in this step, at one of `sites`, and its exception left it
FailedAskAt(sites) == reqlog' # reqlog /\ call'.site \in sites /\ call'.raised

\* C27: a turn is recorded only after its reply was obtained: when the ask of
\* a turn raises (retries exhausted, malformed response, unsupported model),
\* Shared Context, Transcript and the score tally are what they were before
\* the turn and the run ends there; the same holds for the asks of the setup;
\* Shared Context changes only in a step where the speaker of a turn replied
\* and the tally only in a step where a scoring judge replied.
C27_FailedTurnLeavesNoTrace ==
    [][ /\ FailedAskAt(TurnSites \cup {"domain", "profile"}) =>
              /\ shared' = shared /\ transcript' = transcript /\ scores' = scores
              /\ pc' = "aborted"
        /\ shared' # shared =>
              reqlog' # reqlog /\ call'.site \in TurnSites /\ ~call'.raised
        /\ scores' # scores => reqlog' # reqlog /\ call'.site = "judge" /\ ~call'.raised ]_vars

C27_Witness ==
    /\ pc = "aborted" /\ call.site = "judge" /\ call.raised
    /\ call.error.type = "RateLimitError"
    /\ scores # BothSides(0, 0) /\ Len(shared) = 2 * CompletedTurns

\* the shipped configuration (threshold and keep-recent are the shipped ones
\* in every run)
Shipped ==
    /\ cfg.FREE_ROUNDS = FREE_ROUNDS
    /\ cfg.MEMORY_SUMMARIZE_THRESHOLD = MEMORY_SUMMARIZE_THRESHOLD
    /\ cfg.MEMORY_KEEP_RECENT = MEMORY_KEEP_RECENT

\* the summarization requests of an ask made on `memory`
SummaryRequestsOn(memory) == _prepare_memory_context(memory, cfg, "ok").sum_requests

\* the turns of a run, numbered in order, whose ask issued a summarization
\* request: the k-th turn is asked on the first 2(k-1) entries
SummarizingTurns ==
    {k \in 1..Len(shared) \div 2 : SummaryRequestsOn(SubSeq(shared, 1, 2 * (k - 1))) > 0}

\* C28: with the shipped configuration no debate turn compacts; the first
\* ask that does is the fourth scoring judge's; the fifth judge's and the
\* summary judge's do too, so a completed run has issued exactly three
\* summarization requests, its last three turns; each of them summarizes
\* Shared Context from its first entry up to the kept recent ones.
C28_CompactionSchedule ==
    /\ [](Shipped =>
            /\ pc = "turn" => SummaryRequestsOn(shared) = 0
            /\ pc = "judge" => SummaryRequestsOn(shared) = (IF jIdx >= 4 THEN 1 ELSE 0)
            /\ pc = "summary" => SummaryRequestsOn(shared) = 1
            /\ pc = "done" =>
                  LET n == Len(shared) \div 2
                  IN  /\ Cardinality(SummarizingTurns) = 3
                      /\ SummarizingTurns = {n - 2, n - 1, n})
    /\ [][ (Shipped /\ reqlog' # reqlog) =>
              /\ call'.summarized <=> (pc = "summary" \/ (pc = "judge" /\ jIdx >= 4))
              /\ call'.summarized =>
                    LET whole == SubSeq(shared, 1, Len(shared) - MEMORY_KEEP_RECENT)
                    IN  /\ call'.messages[2].role = "system"
                        /\ call'.messages[2].content.kind = "debate_summary"
                        /\ call'.messages[2].content.summary
                              \in {SummaryUnavailable, [kind |-> "summary", of |-> whole]}
                        /\ whole # <<>> /\ whole[1] = shared[1] ]_vars

C28_Witness ==
    /\ Shipped /\ pc = "done" /\ call.summarized
    /\ Cardinality(SummarizingTurns) = 3
    /\ call.messages[2].content.summary # SummaryUnavailable

IsJudge(r) == r.side = "Judge"

\* the replies of the judges recorded in Shared Context
JudgeReplyEntries ==
    SelectSeq(shared, LAMBDA m : m.role = "assistant" /\ IsJudge(m.content.speaker))

\* entry `e` reaches the model with the request `c`: as one of its messages,
\* or inside the history its debate summary was made of
Conveyed(e, c) ==
    \/ e \in Range(c.messages)
    \/ /\ c.summarized
       /\ c.messages[2].content.summary # SummaryUnavailable
       /\ e \in Range(c.messages[2].content.summary.of)

\* the "Debate content" section of the prompt sent with the request `c`
DebateContentOf(c) == c.messages[Len(c.messages)].content.body.base.debate_content

\* C29: the scoring judges are asked on the same Shared Context as the
\* debaters: when the k-th is asked, the turns of the k-1 before it are
\* recorded, and every reply of an earlier judge is among the messages sent
\* to it, or inside the history the debate summary sent to it was made of;
\* the same holds for the summary judge and the five scoring judges; the
\* "Debate content" of a judge's or the summary judge's prompt has entries of
\* debaters only, none of a judge or of Evidence_System.
C29_JudgesSeeEarlierJudges ==
    /\ [](/\ pc = "judge" => Recorded(IsJudge) = [i \in 1..jIdx - 1 |-> ScoringJudge(i)]
          /\ pc = "summary" =>
                Recorded(IsJudge) = [i \in 1..Len(SCORING_JUDGE_ROLES) |-> ScoringJudge(i)])
    /\ [][ (reqlog' # reqlog /\ pc \in {"judge", "summary"} /\ call'.messages # <<>>) =>
              /\ \A i \in 1..Len(JudgeReplyEntries) : Conveyed(JudgeReplyEntries[i], call')
              /\ \A entry \in Range(DebateContentOf(call')) :
                    IsDebater(entry.speaker) /\ entry.speaker # Evidence_System ]_vars

C29_Witness ==
    /\ pc = "done" /\ call.site = "summary" /\ ~call.raised /\ call.summarized
    /\ Len(JudgeReplyEntries) = Len(SCORING_JUDGE_ROLES) + 1
    /\ \E i \in 1..Len(transcript) : transcript[i].speaker = Evidence_System
    /\ DebateContentOf(call) # <<>>

\* the turns a completed run takes
TurnsOfRun == RosterTurns + 2 * cfg.FREE_ROUNDS + Len(SCORING_JUDGE_ROLES) + 1

\* C30: every run ends, aborted or done, and takes no step after that; a run
\* that is done has recorded (sum of the Opening, Rebuttal and Closing roster
\* sizes) + 2 x FREE_ROUNDS debate turns, one turn of each scoring judge and
\* one summary turn, its Shared Context has twice that many entries, and it
\* has one verdict, set once.
C30_RunTerminates ==
    /\ <>Ended
    /\ [](pc = "done" =>
            /\ Len(DebateTurns) = RosterTurns + 2 * cfg.FREE_ROUNDS
            /\ Recorded(IsJudge) = [i \in 1..Len(SCORING_JUDGE_ROLES) |-> ScoringJudge(i)]
                                      \o <<Role("Judge", SUMMARY_JUDGE_CONFIG)>>
            /\ CompletedTurns = TurnsOfRun
            /\ Len(shared) = 2 * TurnsOfRun
            /\ verdict \in {"REAL", "FAKE", "UNCERTAIN"} /\ saved.verdict = verdict)
    /\ [][ /\ ~Ended
           /\ verdict # "" => verdict' = verdict ]_vars

C30_Witness ==
    /\ pc = "done" /\ cfg.FREE_ROUNDS = MaxFreeRounds /\ Len(shared) = 2 * TurnsOfRun
    /\ verdict = "FAKE"

====
